---- MODULE Spec2Model ----
(***************************************************************************)
(* Model of the planning application: the Dashboard component's local      *)
(* state (themes, tasks, stories, currentThemeId) with its asynchronous    *)
(* handlers, the remote database behind the persistence adapter, and the    *)
(* Copilot component's chat sessions with the JSON_ACTION parsing of LLM    *)
(* replies.                                                                 *)
(***************************************************************************)
EXTENDS Integers, Sequences, FiniteSets, TLC

\* ------------------------------------------------------------------ bounds
LoadIds == 5         \* ids crypto.randomUUID() hands out in a run of LoadSpec
ThemeIds == 3        \* ... in a run of ThemeSpec
ApplyIds == 4        \* ... in a run of ApplySpec
MaxThemes == 3       \* themes per user
MaxTasks == 2        \* tasks held by the Dashboard
MaxStories == 2      \* stories per user
MaxDay == 3          \* calendar days 1..MaxDay
MaxPending == 1
MaxSessions == 2
ChatIds == 6
ParseIds == 4
MaxSegs == 3      \* remote deletes in flight

\* The pool crypto.randomUUID() draws from; ids are handed out in order, so
\* the position of an id in the pool is also its creation order.
IdPool == <<"u1", "u2", "u3", "u4", "u5", "u6", "u7", "u8", "u9", "u10", "u11", "u12", "u13">>

\* JavaScript's undefined (an absent optional field).
Undefined == "<undefined>"

Days == 1..MaxDay

\* "2026-01-01" and "2026-02-15" of the default theme, as day numbers.  ISO
\* date strings of one format compare as the days they denote.
DefaultStart == 1
DefaultEnd == 2

\* Date ranges a user types into the theme form (the form checks only that
\* both are present, so the end may precede the start).
DateRanges == {<<1, 2>>, <<3, 3>>, <<2, 1>>}

\* Titles typed for tasks and stories.  A story may be titled with any text,
\* including text that is another record's id.
StoryTitles == {"Fit", "u2"}

VARIABLES
  themes,          \* Dashboard state: Theme[]
  tasks,           \* Dashboard state: Task[]
  stories,         \* Dashboard state: Story[]
  currentThemeId,  \* Dashboard state: string
  loading,         \* Dashboard state: boolean
  nextId,          \* position in IdPool of the next generated id
  dbThemes,        \* table themes (rows of the signed-in user)
  dbTasks,         \* table tasks
  dbStories,       \* table stories
  loads,           \* loadData calls awaiting their Promise.all
  deletes,         \* handleDeleteTheme calls awaiting apiDeleteTheme
  lastAlert,       \* text of the last alert() dialog
  lastOp,          \* the handler step taken last
  lastArgs,        \* what the last step was given: the suggestions handed to
                   \* handleCopilotAddTasks, the text chatWithCopilot returned
  sessions,        \* Copilot state: ChatSession[]
  currentSessionId,\* Copilot state: string | null
  isThinking,      \* Copilot state: boolean
  sends,           \* handleSendMessage calls awaiting chatWithCopilot
  chatStore,       \* localStorage copilot_sessions_<email>
  handed,          \* <<message id, position>> of each suggestion given to onAddTasks
  authUser,        \* supabase.auth: id of the authenticated user, or Null
  lastResult,      \* outcome of the last service call (adapter, proxy, export)
  focusTask,       \* Dashboard state: Task | null, as a list of at most one task
  requests         \* statements completeFocusTask sent to the tasks table

dashVars == <<themes, tasks, stories, currentThemeId, loading, nextId,
              dbThemes, dbTasks, dbStories, loads, deletes, lastAlert, lastOp,
              lastArgs>>

chatVars == <<sessions, currentSessionId, isThinking, sends, chatStore, handed>>

svcVars == <<authUser, lastResult>>

focusVars == <<focusTask, requests>>

vars == <<dashVars, chatVars, svcVars, focusVars>>

\* ----------------------------------------------------------------- helpers
Range(s) == {s[i] : i \in 1..Len(s)}

IdsOf(s) == {s[i].id : i \in 1..Len(s)}

\* All orders in which a SELECT without ORDER BY may return the rows S.
RowOrders(S) ==
  {s \in [1..Cardinality(S) -> S] : \A i, j \in 1..Cardinality(S) : i # j => s[i] # s[j]}

\* Array.prototype.find: the first element satisfying the test, else Undefined.
FindIndex(s, Test(_)) ==
  IF \E i \in 1..Len(s) : Test(s[i])
    THEN CHOOSE i \in 1..Len(s) : Test(s[i]) /\ \A j \in 1..(i - 1) : ~Test(s[j])
    ELSE 0

\* String.prototype.toLowerCase over the strings of the model.
ToLowerCase(str) ==
  CASE str = "Fit" -> "fit"
    [] OTHER -> str

\* crypto.randomUUID()
RandomUUID(n) == IdPool[n]

\* An insert that ignores the primary key: the new rows are added.
Upsert_Appends(table, rows) == table \cup rows

\* upsert by primary key: rows with the ids of the new rows are replaced.
Upsert(table, rows) == {r \in table : r.id \notin {x.id : x \in rows}} \cup rows

\* availableStories: stories.sort((a, b) => b.createdAt - a.createdAt), a
\* stable in-place sort of the state array, newest first, run at each render.
RECURSIVE InsertStory(_, _)
InsertStory(sorted, s) ==
  IF sorted = <<>> THEN <<s>>
  ELSE IF Head(sorted).createdAt >= s.createdAt
    THEN <<Head(sorted)>> \o InsertStory(Tail(sorted), s)
    ELSE <<s>> \o sorted

RECURSIVE SortStories(_)
SortStories(s) ==
  IF s = <<>> THEN <<>>
  ELSE InsertStory(SortStories(SubSeq(s, 1, Len(s) - 1)), s[Len(s)])

\* The component renders the planner (and accepts user actions) only when it
\* is not loading and a current theme exists.
UIReady == ~loading /\ Len(themes) > 0

\* currentTheme: themes.find(t => t.id === currentThemeId) || themes[0]
CurrentTheme ==
  LET IsCur(t) == t.id = currentThemeId
      i == FindIndex(themes, IsCur)
  IN IF i # 0 THEN themes[i] ELSE themes[1]

\* ------------------------------------------------------------------- Init
\* A new user's first mount: empty tables, the initial useState values, and
\* the mount effect's loadData() already issued.  loadData is captured by the
\* mount effect, so the currentThemeId it reads is the one of the first
\* render.
InitialCurrentThemeId == ""

LoadRequest(bg, tks, ths, sts) ==
  [isBackground |-> bg, loadedTasks |-> tks, loadedThemes |-> ths,
   loadedStories |-> sts, currentThemeId |-> InitialCurrentThemeId]

DashInit ==
  /\ themes = <<>>
  /\ tasks = <<>>
  /\ stories = <<>>
  /\ currentThemeId = InitialCurrentThemeId
  /\ loading = TRUE
  /\ nextId = 1
  /\ dbThemes = {}
  /\ dbTasks = {}
  /\ dbStories = {}
  /\ loads = {LoadRequest(FALSE, <<>>, <<>>, <<>>)}
  /\ deletes = {}
  /\ lastAlert = ""
  /\ lastOp = "mount"
  /\ lastArgs = <<>>

\* ------------------------------------------------- persistence adapter
\* SQL NULL as read back by the adapter.
Null == "<null>"

\* JavaScript truthiness of an optional string.
Truthy(x) == x \notin {Undefined, Null, ""}

\* saveTasks: the row sent for a task (story_id: t.storyId || null).
ToDbTask(t) == [t EXCEPT !.storyId = IF Truthy(t.storyId) THEN t.storyId ELSE Null]

\* saveStories: the row sent for a story (theme_id: s.themeId || null).
ToDbStory(s) == [s EXCEPT !.themeId = IF Truthy(s.themeId) THEN s.themeId ELSE Null]

\* A save that merges with the stored row: the stored title is kept.
SaveTasks_KeepsStoredTitle(table, list) ==
  LET Merged(t) ==
        IF \E r \in table : r.id = t.id
          THEN [ToDbTask(t) EXCEPT !.title = (CHOOSE r \in table : r.id = t.id).title]
          ELSE ToDbTask(t)
  IN IF \E i, j \in 1..Len(list) : i # j /\ list[i].id = list[j].id
       THEN table
       ELSE Upsert(table, {Merged(list[i]) : i \in 1..Len(list)})

\* saveTasks(user.email, list): one upsert statement.  Postgres rejects an
\* upsert whose payload names the same primary key twice, and then stores
\* nothing.
SaveTasks(table, list) ==
  IF \E i, j \in 1..Len(list) : i # j /\ list[i].id = list[j].id
    THEN table
    ELSE Upsert(table, {ToDbTask(list[i]) : i \in 1..Len(list)})

\* deleteTheme: tasks.theme_id cascades, stories.theme_id is set to NULL.
DbDeleteTheme(id) ==
  /\ dbThemes' = {r \in dbThemes : r.id # id}
  /\ dbTasks' = {r \in dbTasks : r.themeId # id}
  /\ dbStories' = {IF r.themeId = id THEN [r EXCEPT !.themeId = Null] ELSE r : r \in dbStories}

\* ------------------------------------------------------------- loadData
\* Select the theme that contains today's date, or the last one loaded.
SelectActiveTheme(loadedThemes, day) ==
  LET Contains(t) == day >= t.startDate /\ day <= t.endDate
      i == FindIndex(loadedThemes, Contains)
  IN IF i # 0 THEN loadedThemes[i] ELSE loadedThemes[Len(loadedThemes)]

\* The page is (re)loaded: the component is constructed anew and its mount
\* effect calls loadData().  Continuations of the previous page never run.
Mount ==
  /\ themes' = <<>>
  /\ tasks' = <<>>
  /\ stories' = <<>>
  /\ currentThemeId' = InitialCurrentThemeId
  /\ loading' = TRUE
  /\ \E tks \in RowOrders(dbTasks), ths \in RowOrders(dbThemes), sts \in RowOrders(dbStories) :
       loads' = {LoadRequest(FALSE, tks, ths, sts)}
  /\ deletes' = {}
  /\ lastAlert' = ""
  /\ lastOp' = "mount"
  /\ lastArgs' = <<>>
  /\ sessions' = <<>>
  /\ currentSessionId' = Null
  /\ isThinking' = FALSE
  /\ sends' = {}
  /\ focusTask' = <<>>
  /\ UNCHANGED <<nextId, dbThemes, dbTasks, dbStories, chatStore, handed, svcVars,
                 requests>>

\* handleFocus / handleVisibilityChange: loadData(true).  The three selects
\* answer with the rows in an order the database chooses.
LoadDataBackground ==
  /\ Cardinality(loads) < MaxPending
  /\ \E tks \in RowOrders(dbTasks), ths \in RowOrders(dbThemes), sts \in RowOrders(dbStories) :
       loads' = loads \cup {LoadRequest(TRUE, tks, ths, sts)}
  /\ lastOp' = "loadData(true)"
  /\ UNCHANGED <<themes, tasks, stories, currentThemeId, loading, nextId,
                 dbThemes, dbTasks, dbStories, deletes, lastAlert>>
  /\ lastArgs' = <<>>
  /\ UNCHANGED <<chatVars, svcVars, focusVars>>

\* loadData after its Promise.all resolved, on the UTC date day.
LoadDataResume(l, day) ==
  /\ l \in loads
  /\ LET empty == Len(l.loadedThemes) = 0
         defaultTheme == [id |-> RandomUUID(nextId), startDate |-> DefaultStart,
                          endDate |-> DefaultEnd, completed |-> FALSE]
         loadedThemes == IF empty THEN <<defaultTheme>> ELSE l.loadedThemes
         updatedTasks == [i \in 1..Len(l.loadedTasks) |->
                            IF Truthy(l.loadedTasks[i].themeId) THEN l.loadedTasks[i]
                            ELSE [l.loadedTasks[i] EXCEPT !.themeId = defaultTheme.id]]
         activeTheme == SelectActiveTheme(loadedThemes, day)
     IN /\ IF empty
             THEN /\ dbThemes' = Upsert(dbThemes, {defaultTheme})
                  /\ tasks' = updatedTasks
                  /\ dbTasks' = SaveTasks(dbTasks, updatedTasks)
                  /\ nextId' = nextId + 1
             ELSE /\ tasks' = l.loadedTasks
                  /\ UNCHANGED <<dbThemes, dbTasks, nextId>>
        /\ themes' = loadedThemes
        /\ stories' = SortStories(l.loadedStories)
        /\ currentThemeId' = IF ~Truthy(l.currentThemeId) THEN activeTheme.id
                             ELSE currentThemeId
  /\ loading' = IF l.isBackground THEN loading ELSE FALSE
  /\ loads' = loads \ {l}
  /\ lastOp' = IF l.isBackground THEN "loadData(true):resumed" ELSE "loadData():resumed"
  /\ UNCHANGED <<dbStories, deletes, lastAlert>>
  /\ lastArgs' = <<>>
  /\ UNCHANGED <<chatVars, svcVars, focusVars>>

\* loadData when a select fails (no session, or a remote error): the catch
\* branch records the error and local state stays as it was.
LoadDataFail(l) ==
  /\ l \in loads
  /\ loading' = IF l.isBackground THEN loading ELSE FALSE
  /\ loads' = loads \ {l}
  /\ lastOp' = IF l.isBackground THEN "loadData(true):failed" ELSE "loadData():failed"
  /\ UNCHANGED <<themes, tasks, stories, currentThemeId, nextId,
                 dbThemes, dbTasks, dbStories, deletes, lastAlert>>
  /\ lastArgs' = <<>>
  /\ UNCHANGED <<chatVars, svcVars, focusVars>>

\* ------------------------------------------------------- theme handlers
\* handleThemeSubmit for a new theme (editingTheme is null).
HandleThemeSubmit(range) ==
  /\ UIReady
  /\ Len(themes) < MaxThemes
  /\ Cardinality(dbThemes) < MaxThemes
  /\ LET newTheme == [id |-> RandomUUID(nextId), startDate |-> range[1],
                      endDate |-> range[2], completed |-> FALSE]
     IN /\ themes' = Append(themes, newTheme)
        /\ currentThemeId' = newTheme.id
        /\ dbThemes' = Upsert(dbThemes, {newTheme})
        /\ lastOp' = "handleThemeSubmit"
  /\ nextId' = nextId + 1
  /\ UNCHANGED <<tasks, stories, loading, dbTasks, dbStories, loads,
                 deletes, lastAlert>>
  /\ lastArgs' = <<>>
  /\ UNCHANGED <<chatVars, svcVars, focusVars>>

\* onSelectTheme in the roadmap.
SelectTheme(id) ==
  /\ UIReady
  /\ id \in IdsOf(themes)
  /\ currentThemeId' = id
  /\ lastOp' = "onSelectTheme"
  /\ UNCHANGED <<themes, tasks, stories, loading, nextId, dbThemes,
                 dbTasks, dbStories, loads, deletes, lastAlert>>
  /\ lastArgs' = <<>>
  /\ UNCHANGED <<chatVars, svcVars, focusVars>>

NeedOneEra == "You need at least one era defined."

\* A handleDeleteTheme call that passed its guard and awaits the remote
\* delete: it keeps the themes and currentThemeId of the render it was
\* called in.
DeleteRequest(themeId) ==
  [themeId |-> themeId, themes |-> themes, currentThemeId |-> currentThemeId,
   status |-> "sent"]

\* handleDeleteTheme up to its await, with at most cap calls awaiting their
\* remote delete at a time.
HandleDeleteThemePending(themeId, cap) ==
  /\ UIReady
  /\ themeId \in IdsOf(themes)
  /\ IF Len(themes) <= 1
       THEN /\ lastAlert' = NeedOneEra
            /\ UNCHANGED deletes
       ELSE /\ Cardinality(deletes) < cap
            /\ deletes' = deletes \cup {DeleteRequest(themeId)}
            /\ UNCHANGED lastAlert
  /\ lastOp' = "handleDeleteTheme"
  /\ UNCHANGED <<themes, tasks, stories, currentThemeId, loading, nextId,
                 dbThemes, dbTasks, dbStories, loads>>
  /\ lastArgs' = <<>>
  /\ UNCHANGED <<chatVars, svcVars, focusVars>>

\* handleDeleteTheme with the guard written themes.length < 1.
HandleDeleteTheme_GuardOffByOne(themeId) ==
  /\ UIReady
  /\ themeId \in IdsOf(themes)
  /\ IF Len(themes) < 1
       THEN /\ lastAlert' = NeedOneEra
            /\ UNCHANGED deletes
       ELSE /\ Cardinality(deletes) < MaxPending
            /\ deletes' = deletes \cup {DeleteRequest(themeId)}
            /\ UNCHANGED lastAlert
  /\ lastOp' = "handleDeleteTheme"
  /\ UNCHANGED <<themes, tasks, stories, currentThemeId, loading, nextId,
                 dbThemes, dbTasks, dbStories, loads>>
  /\ lastArgs' = <<>>
  /\ UNCHANGED <<chatVars, svcVars, focusVars>>

\* handleDeleteTheme up to its await.
HandleDeleteTheme(themeId) == HandleDeleteThemePending(themeId, MaxPending)

\* The database executes (ok) or refuses (err) a delete that was sent.
RemoteDeleteTheme(d, ok) ==
  /\ d \in deletes
  /\ d.status = "sent"
  /\ IF ok THEN DbDeleteTheme(d.themeId)
           ELSE UNCHANGED <<dbThemes, dbTasks, dbStories>>
  /\ deletes' = (deletes \ {d}) \cup {[d EXCEPT !.status = IF ok THEN "ok" ELSE "err"]}
  /\ lastOp' = "apiDeleteTheme"
  /\ UNCHANGED <<themes, tasks, stories, currentThemeId, loading, nextId,
                 loads, lastAlert>>
  /\ lastArgs' = <<>>
  /\ UNCHANGED <<chatVars, svcVars, focusVars>>

\* handleDeleteTheme after its await, without the setStories line.
HandleDeleteThemeResume_KeepsStories(d) ==
  /\ d \in deletes
  /\ d.status # "sent"
  /\ deletes' = deletes \ {d}
  /\ IF d.status = "ok"
       THEN LET Keep(t) == t.id # d.themeId
                KeepRef(t) == t.themeId # d.themeId
                remaining == SelectSeq(d.themes, Keep)
            IN /\ themes' = SelectSeq(themes, Keep)
               /\ tasks' = SelectSeq(tasks, KeepRef)
               /\ stories' = stories
               /\ currentThemeId' =
                    IF d.currentThemeId = d.themeId /\ Len(remaining) > 0
                      THEN remaining[1].id ELSE currentThemeId
               /\ lastOp' = "handleDeleteTheme:resumed"
       ELSE /\ UNCHANGED <<themes, tasks, stories, currentThemeId>>
            /\ lastOp' = "handleDeleteTheme:threw"
  /\ UNCHANGED <<loading, nextId, dbThemes, dbTasks, dbStories, loads, lastAlert>>
  /\ lastArgs' = <<>>
  /\ UNCHANGED <<chatVars, svcVars, focusVars>>

\* handleDeleteTheme after its await.  apiDeleteTheme throws on a remote
\* error, and then nothing after the await runs.
HandleDeleteThemeResume(d) ==
  /\ d \in deletes
  /\ d.status # "sent"
  /\ deletes' = deletes \ {d}
  /\ IF d.status = "ok"
       THEN LET Keep(t) == t.id # d.themeId
                KeepRef(t) == t.themeId # d.themeId
                remaining == SelectSeq(d.themes, Keep)
            IN /\ themes' = SelectSeq(themes, Keep)
               /\ tasks' = SelectSeq(tasks, KeepRef)
               /\ stories' = SortStories(SelectSeq(stories, KeepRef))
               /\ currentThemeId' =
                    IF d.currentThemeId = d.themeId /\ Len(remaining) > 0
                      THEN remaining[1].id ELSE currentThemeId
               /\ lastOp' = "handleDeleteTheme:resumed"
       ELSE /\ UNCHANGED <<themes, tasks, stories, currentThemeId>>
            /\ lastOp' = "handleDeleteTheme:threw"
  /\ UNCHANGED <<loading, nextId, dbThemes, dbTasks, dbStories, loads, lastAlert>>
  /\ lastArgs' = <<>>
  /\ UNCHANGED <<chatVars, svcVars, focusVars>>

\* handleToggleThemeComplete, from the roadmap: the era is marked completed
\* or re-opened, and saved.
HandleToggleThemeComplete(themeId) ==
  /\ UIReady
  /\ LET IsIt(t) == t.id = themeId
         i == FindIndex(themes, IsIt)
     IN IF i # 0
          THEN LET updatedTheme == [themes[i] EXCEPT !.completed = ~themes[i].completed]
               IN /\ themes' = [k \in 1..Len(themes) |->
                                  IF themes[k].id = themeId THEN updatedTheme ELSE themes[k]]
                  /\ dbThemes' = Upsert(dbThemes, {updatedTheme})
          ELSE UNCHANGED <<themes, dbThemes>>
  /\ lastOp' = "handleToggleThemeComplete"
  /\ lastArgs' = <<themeId>>
  /\ UNCHANGED <<tasks, stories, currentThemeId, loading, nextId, dbTasks, dbStories,
                 loads, deletes, lastAlert>>
  /\ UNCHANGED <<chatVars, svcVars, focusVars>>

\* -------------------------------------------------- task and story handlers
\* handleManualTaskSubmit for a new task (editingTask is null) with an
\* existing story, or none, selected in the modal.
HandleManualTaskSubmit(title, selectedStoryId) ==
  /\ UIReady
  /\ ~CurrentTheme.completed
  /\ Len(tasks) < MaxTasks
  /\ selectedStoryId \in {""} \cup IdsOf(stories)
  /\ LET newTask == [id |-> RandomUUID(nextId), themeId |-> currentThemeId,
                     storyId |-> IF Truthy(selectedStoryId) THEN selectedStoryId ELSE Undefined,
                     title |-> title, completed |-> FALSE]
     IN /\ tasks' = Append(tasks, newTask)
        /\ dbTasks' = SaveTasks(dbTasks, <<newTask>>)
        /\ lastOp' = "handleManualTaskSubmit"
  /\ nextId' = nextId + 1
  /\ UNCHANGED <<themes, stories, currentThemeId, loading, dbThemes,
                 dbStories, loads, deletes, lastAlert>>
  /\ lastArgs' = <<>>
  /\ UNCHANGED <<chatVars, svcVars, focusVars>>

\* toggleTask
ToggleTask(id) ==
  /\ UIReady
  /\ LET IsIt(t) == t.id = id
         i == FindIndex(tasks, IsIt)
     IN /\ i # 0
        /\ LET updatedTask == [tasks[i] EXCEPT !.completed = ~tasks[i].completed]
           IN /\ tasks' = [j \in 1..Len(tasks) |-> IF tasks[j].id = id THEN updatedTask ELSE tasks[j]]
              /\ dbTasks' = SaveTasks(dbTasks, <<updatedTask>>)
  /\ lastOp' = "toggleTask"
  /\ UNCHANGED <<themes, stories, currentThemeId, loading, nextId, dbThemes,
                 dbStories, loads, deletes, lastAlert>>
  /\ lastArgs' = <<>>
  /\ UNCHANGED <<chatVars, svcVars, focusVars>>

\* deleteTask
DeleteTask(id) ==
  /\ UIReady
  /\ id \in IdsOf(tasks)
  /\ LET Keep(t) == t.id # id IN tasks' = SelectSeq(tasks, Keep)
  /\ dbTasks' = {r \in dbTasks : r.id # id}
  /\ lastOp' = "deleteTask"
  /\ UNCHANGED <<themes, stories, currentThemeId, loading, nextId, dbThemes,
                 dbStories, loads, deletes, lastAlert>>
  /\ lastArgs' = <<>>
  /\ UNCHANGED <<chatVars, svcVars, focusVars>>

\* handleCopilotAddStory
HandleCopilotAddStory(title) ==
  /\ UIReady
  /\ Truthy(title)
  /\ Len(stories) < MaxStories
  /\ Cardinality(dbStories) < MaxStories
  /\ LET newStory == [id |-> RandomUUID(nextId), themeId |-> currentThemeId,
                      title |-> title, createdAt |-> nextId]
     IN /\ stories' = SortStories(Append(stories, newStory))
        /\ dbStories' = Upsert(dbStories, {ToDbStory(newStory)})
        /\ lastOp' = "handleCopilotAddStory"
  /\ nextId' = nextId + 1
  /\ UNCHANGED <<themes, tasks, currentThemeId, loading, dbThemes, dbTasks,
                 loads, deletes, lastAlert>>
  /\ lastArgs' = <<>>
  /\ UNCHANGED <<chatVars, svcVars, focusVars>>

\* ------------------------------------------------ handleCopilotAddTasks
\* Story resolution that tries the title before the id.
ResolveStoryId_TitleFirst(storyList, storyId) ==
  IF ~Truthy(storyId) THEN storyId
  ELSE LET ById(s) == s.id = storyId
           ByTitle(s) == ToLowerCase(s.title) = ToLowerCase(storyId)
           foundById == FindIndex(storyList, ById)
           foundByTitle == FindIndex(storyList, ByTitle)
       IN IF foundByTitle # 0 THEN storyList[foundByTitle].id
          ELSE IF foundById # 0 THEN storyId
          ELSE Undefined

\* Story resolution without the fallback to undefined.
ResolveStoryId_NoFallback(storyList, storyId) ==
  IF ~Truthy(storyId) THEN storyId
  ELSE LET ById(s) == s.id = storyId
           ByTitle(s) == ToLowerCase(s.title) = ToLowerCase(storyId)
           foundById == FindIndex(storyList, ById)
           foundByTitle == FindIndex(storyList, ByTitle)
       IN IF foundById # 0 THEN storyId
          ELSE IF foundByTitle # 0 THEN storyList[foundByTitle].id
          ELSE storyId

\* Smart story resolution: by id first, then by title, else undefined.  A
\* falsy storyId is left as it is.
ResolveStoryId(storyList, storyId) ==
  IF ~Truthy(storyId) THEN storyId
  ELSE LET ById(s) == s.id = storyId
           ByTitle(s) == ToLowerCase(s.title) = ToLowerCase(storyId)
           foundById == FindIndex(storyList, ById)
           foundByTitle == FindIndex(storyList, ByTitle)
       IN IF foundById # 0 THEN storyId
          ELSE IF foundByTitle # 0 THEN storyList[foundByTitle].id
          ELSE Undefined

\* existingTask: t.id ? tasks.find(et => et.id === t.id) : null
ExistingIndex(taskList, t) ==
  LET IsIt(et) == et.id = t.id
  IN IF Truthy(t.id) THEN FindIndex(taskList, IsIt) ELSE 0

\* The entry pushed to tasksToUpdate, built without spreading existingTask's
\* completed flag.
UpdatedTask_ResetsCompleted(existingTask, t, resolvedStoryId) ==
  [existingTask EXCEPT
     !.title = IF Truthy(t.title) THEN t.title ELSE @,
     !.storyId = IF resolvedStoryId # Undefined THEN resolvedStoryId ELSE @,
     !.completed = FALSE]

\* The entry pushed to tasksToUpdate.
UpdatedTask(existingTask, t, resolvedStoryId) ==
  [existingTask EXCEPT
     !.title = IF Truthy(t.title) THEN t.title ELSE @,
     !.storyId = IF resolvedStoryId # Undefined THEN resolvedStoryId ELSE @]

\* The entry pushed to tasksToCreate.
CreatedTask(t, resolvedStoryId, newId, themeId) ==
  [id |-> newId, themeId |-> themeId, storyId |-> resolvedStoryId,
   title |-> IF Truthy(t.title) THEN t.title ELSE "New Idea",
   completed |-> FALSE]

\* The positions of the suggestions that update (TRUE) or create (FALSE).
PositionsOf(taskList, sugs, updating) ==
  LET Wanted(i) == (ExistingIndex(taskList, sugs[i]) # 0) = updating
  IN SelectSeq([i \in 1..Len(sugs) |-> i], Wanted)

TasksToUpdate(taskList, storyList, sugs) ==
  LET pos == PositionsOf(taskList, sugs, TRUE)
  IN [k \in 1..Len(pos) |->
        UpdatedTask(taskList[ExistingIndex(taskList, sugs[pos[k]])], sugs[pos[k]],
                    ResolveStoryId(storyList, sugs[pos[k]].storyId))]

TasksToCreate(taskList, storyList, sugs, firstId, themeId) ==
  LET pos == PositionsOf(taskList, sugs, FALSE)
  IN [k \in 1..Len(pos) |->
        CreatedTask(sugs[pos[k]], ResolveStoryId(storyList, sugs[pos[k]].storyId),
                    RandomUUID(firstId + k - 1), themeId)]

\* tasksToUpdate.forEach(u => updatedList = updatedList.map(t => t.id === u.id ? u : t))
RECURSIVE ApplyUpdates(_, _)
ApplyUpdates(list, updates) ==
  IF updates = <<>> THEN list
  ELSE ApplyUpdates([i \in 1..Len(list) |->
                       IF list[i].id = Head(updates).id THEN Head(updates) ELSE list[i]],
                    Tail(updates))

\* What the model may return inside a TASKS block: id, storyId and title are
\* each optional; an id may name a local task or none; a storyId may be a
\* story's id, a story's title in any case, or match nothing.
Suggestion(id, storyId, title) == [id |-> id, storyId |-> storyId, title |-> title]

Suggestions ==
  {Suggestion(i, s, t) : i \in {Undefined, "zz"} \cup IdsOf(tasks),
                         s \in {Undefined, "", "fit", "nope", "u2"} \cup IdsOf(stories),
                         t \in {"b"}}

\* Lists of one suggestion, and lists of two that add a task and then add
\* or update another.
PairHeads ==
  {Suggestion(Undefined, s, Undefined) : s \in {Undefined, "nope"}}

FollowUps ==
  {Suggestion(Undefined, Undefined, Undefined)} \cup
  {Suggestion(i, "nope", "b") : i \in IdsOf(tasks)}

SuggestionLists ==
  {<<a>> : a \in Suggestions} \cup {<<a, b>> : a \in PairHeads, b \in FollowUps}

\* The effect of handleCopilotAddTasks(suggestedTasks) on the Dashboard.
CopilotAddTasks(suggestedTasks) ==
  LET tasksToUpdate == TasksToUpdate(tasks, stories, suggestedTasks)
      tasksToCreate == TasksToCreate(tasks, stories, suggestedTasks, nextId, currentThemeId)
  IN /\ IF Len(tasksToUpdate) > 0 \/ Len(tasksToCreate) > 0
          THEN /\ tasks' = tasksToCreate \o ApplyUpdates(tasks, tasksToUpdate)
               /\ dbTasks' = SaveTasks(dbTasks, tasksToUpdate \o tasksToCreate)
          ELSE UNCHANGED <<tasks, dbTasks>>
     /\ nextId' = nextId + Len(tasksToCreate)
     /\ lastArgs' = suggestedTasks

\* handleCopilotAddTasks called with a list of suggestions.
HandleCopilotAddTasks(suggestedTasks) ==
  /\ UIReady
  /\ CopilotAddTasks(suggestedTasks)
  /\ lastOp' = "handleCopilotAddTasks"
  /\ UNCHANGED <<themes, stories, currentThemeId, loading, dbThemes,
                 dbStories, loads, deletes, lastAlert>>
  /\ UNCHANGED <<chatVars, svcVars, focusVars>>

\* ================================================================ Copilot
\* ------------------------------------------------------- response text
\* A text is the sequence of its lexemes: words of prose, white space, the
\* opening tag of each action type, the closing tag, and JSON texts.  The
\* regular expressions of handleSendMessage match tags as a whole, and
\* [\s\S]*? matches any run of lexemes.
OpenTag(type) ==
  CASE type = "TASKS" -> "<JSON_ACTION type=\"TASKS\">"
    [] type = "THEME" -> "<JSON_ACTION type=\"THEME\">"
    [] type = "STORY" -> "<JSON_ACTION type=\"STORY\">"

CloseTag == "</JSON_ACTION>"

WhiteSpace == {" "}

\* Optional fields of a message: absent, or present with a value.
None == <<>>

Some(v) == <<v>>

\* JSON texts a response may carry, and a text cut short.
TasksJson3 == "[{\"title\":\"a\"},{\"title\":\"b\"},{\"title\":\"c\"}]"
TasksJson1 == "[{\"title\":\"a\"}]"
ThemeJson == "{\"title\":\"Era\"}"
ThemeJson2 == "{\"title\":\"Era 2\"}"
StoryJson == "{\"title\":\"Fit\"}"
StoryJson2 == "{\"title\":\"Run\"}"
BrokenJson == "{\"title\":"

\* String.prototype.trim on a text.
RECURSIVE TrimStart(_)
TrimStart(text) ==
  IF text # <<>> /\ Head(text) \in WhiteSpace THEN TrimStart(Tail(text)) ELSE text

RECURSIVE TrimEnd(_)
TrimEnd(text) ==
  IF text # <<>> /\ text[Len(text)] \in WhiteSpace
    THEN TrimEnd(SubSeq(text, 1, Len(text) - 1)) ELSE text

Trim(text) == TrimEnd(TrimStart(text))

\* JSON.parse(text): the value, or None where it throws.  White space around
\* the one JSON text is allowed; anything else is a syntax error.
JsonParse(text) ==
  LET t == Trim(text)
  IN IF Len(t) # 1 THEN None
     ELSE CASE t[1] = TasksJson3 ->
                 Some(<<[id |-> Undefined, storyId |-> Undefined, title |-> "a"],
                        [id |-> Undefined, storyId |-> Undefined, title |-> "b"],
                        [id |-> Undefined, storyId |-> Undefined, title |-> "c"]>>)
            [] t[1] = TasksJson1 ->
                 Some(<<[id |-> Undefined, storyId |-> Undefined, title |-> "a"]>>)
            [] t[1] = ThemeJson -> Some([title |-> "Era"])
            [] t[1] = ThemeJson2 -> Some([title |-> "Era 2"])
            [] t[1] = StoryJson -> Some([title |-> "Fit"])
            [] t[1] = StoryJson2 -> Some([title |-> "Run"])
            [] OTHER -> None

\* A match that takes the last block of the type.
Match_LastBlock(text, type) ==
  LET opens == {i \in 1..Len(text) :
                  text[i] = OpenTag(type) /\ \E j \in (i+1)..Len(text) : text[j] = CloseTag}
  IN IF opens = {} THEN [found |-> FALSE, first |-> 0, last |-> 0, group |-> <<>>]
     ELSE LET i == CHOOSE x \in opens : \A y \in opens : x >= y
              j == CHOOSE x \in (i+1)..Len(text) :
                     /\ text[x] = CloseTag
                     /\ \A y \in (i+1)..(x-1) : text[y] # CloseTag
          IN [found |-> TRUE, first |-> i, last |-> j, group |-> SubSeq(text, i + 1, j - 1)]

\* text.match(/<JSON_ACTION type="T">([\s\S]*?)<\/JSON_ACTION>/): the leftmost
\* opening tag of the type that has a closing tag after it, up to the first
\* such closing tag.
Match(text, type) ==
  LET opens == {i \in 1..Len(text) :
                  text[i] = OpenTag(type) /\ \E j \in (i+1)..Len(text) : text[j] = CloseTag}
  IN IF opens = {} THEN [found |-> FALSE, first |-> 0, last |-> 0, group |-> <<>>]
     ELSE LET i == CHOOSE x \in opens : \A y \in opens : x <= y
              j == CHOOSE x \in (i+1)..Len(text) :
                     /\ text[x] = CloseTag
                     /\ \A y \in (i+1)..(x-1) : text[y] # CloseTag
          IN [found |-> TRUE, first |-> i, last |-> j, group |-> SubSeq(text, i + 1, j - 1)]

\* text.replace(/<JSON_ACTION type="T">[\s\S]*?<\/JSON_ACTION>/g, '')
RECURSIVE ReplaceAll(_, _)
ReplaceAll(text, type) ==
  LET m == Match(text, type)
  IN IF ~m.found THEN text
     ELSE SubSeq(text, 1, m.first - 1) \o
          ReplaceAll(SubSeq(text, m.last + 1, Len(text)), type)

\* Display text that keeps a block whose JSON did not parse.
CleanText_KeepsUnparsed(responseText) ==
  LET Strip(text, type) ==
        IF Match(responseText, type).found /\ Match(responseText, type).group # <<>> /\
           JsonParse(Match(responseText, type).group) = None
          THEN text ELSE ReplaceAll(text, type)
  IN Trim(Strip(Strip(Strip(responseText, "TASKS"), "THEME"), "STORY"))

CleanText(responseText) ==
  Trim(ReplaceAll(ReplaceAll(ReplaceAll(responseText, "TASKS"), "THEME"), "STORY"))

\* if (match?.[1]) { try { ... = JSON.parse(match[1]) } catch (e) { } }
ParsedAction(responseText, type) ==
  LET m == Match(responseText, type)
  IN IF m.found /\ m.group # <<>> THEN JsonParse(m.group) ELSE None

\* ------------------------------------------------------------ sessions
MAX_SESSIONS == 20

Message(id, sender, text) ==
  [id |-> id, sender |-> sender, text |-> text,
   suggestedTasks |-> None, suggestedTheme |-> None, suggestedStory |-> None,
   appliedTaskIds |-> <<>>, rejectedTaskIds |-> <<>>]

\* const aiMsg = { id, text: cleanText, sender: 'ai' } and its payloads
AiMessage(id, responseText) ==
  [Message(id, "ai", CleanText(responseText)) EXCEPT
     !.suggestedTasks = ParsedAction(responseText, "TASKS"),
     !.suggestedTheme = ParsedAction(responseText, "THEME"),
     !.suggestedStory = ParsedAction(responseText, "STORY")]

NewChatTitle == <<"New Chat">>

CreateNewSession(id) ==
  [id |-> id, title |-> NewChatTitle, messages |-> <<Message("init", "ai", <<"Hey">>)>>]

\* generateSessionTitle, on the short inputs of InputTexts
InputTexts == {<<"plan">>, <<" ", "plan">>}

GenerateSessionTitle(firstUserMessage) == Trim(firstUserMessage)

SaveChatSession(store, session) ==
  LET IsIt(s) == s.id = session.id
      index == FindIndex(store, IsIt)
      saved == IF index # 0 THEN [store EXCEPT ![index] = session]
               ELSE <<session>> \o store
  IN SubSeq(saved, 1, IF Len(saved) < MAX_SESSIONS THEN Len(saved) ELSE MAX_SESSIONS)

ChatInit ==
  /\ sessions = <<>>
  /\ currentSessionId = Null
  /\ isThinking = FALSE
  /\ sends = {}
  /\ chatStore = <<>>
  /\ handed = {}

\* The planner is shown to a signed-in user; no service call has been made.
Users == {"A", "B"}

NoResult == [threw |-> "", returned |-> <<>>, queries |-> 0]

SvcInit ==
  /\ authUser = "A"
  /\ lastResult = NoResult

\* useState<Task | null>(null); nothing has been sent.
FocusInit ==
  /\ focusTask = <<>>
  /\ requests = {}

Init == DashInit /\ ChatInit /\ SvcInit /\ FocusInit

\* const messages = currentSession?.messages || []
CurrentMessages ==
  LET IsIt(s) == s.id = currentSessionId
      i == FindIndex(sessions, IsIt)
  IN IF i # 0 THEN sessions[i].messages ELSE <<>>

\* The Dashboard state no Copilot handler writes directly.
boardVars == <<themes, stories, currentThemeId, loading, dbThemes, dbStories,
               loads, deletes, lastAlert>>

\* ------------------------------------------------------------ handlers
\* The effect that loads the sessions when the Copilot is first rendered,
\* which the Dashboard does once it has data to show.
CopilotMount ==
  /\ UIReady
  /\ currentSessionId = Null
  /\ IF Len(chatStore) > 0
       THEN /\ sessions' = chatStore
            /\ currentSessionId' = chatStore[1].id
            /\ UNCHANGED <<chatStore, nextId>>
       ELSE LET newSession == CreateNewSession(RandomUUID(nextId))
            IN /\ sessions' = <<newSession>>
               /\ currentSessionId' = newSession.id
               /\ chatStore' = SaveChatSession(chatStore, newSession)
               /\ nextId' = nextId + 1
  /\ lastOp' = "copilotMount"
  /\ lastArgs' = <<>>
  /\ UNCHANGED <<svcVars, focusVars, boardVars, tasks, dbTasks, isThinking, sends, handed>>

\* handleNewChat
HandleNewChat ==
  /\ currentSessionId # Null
  /\ Len(sessions) < MaxSessions
  /\ LET newSession == CreateNewSession(RandomUUID(nextId))
     IN /\ sessions' = <<newSession>> \o sessions
        /\ currentSessionId' = newSession.id
        /\ chatStore' = SaveChatSession(chatStore, newSession)
  /\ nextId' = nextId + 1
  /\ lastOp' = "handleNewChat"
  /\ lastArgs' = <<>>
  /\ UNCHANGED <<svcVars, focusVars, boardVars, tasks, dbTasks, isThinking, sends, handed>>

\* deleteChatSession: the stored list without the session.
DeleteChatSession(store, sessionId) ==
  LET Other(x) == x.id # sessionId
  IN SelectSeq(store, Other)

\* handleDeleteSession leaving currentSessionId as it is.
HandleDeleteSession_KeepsCurrent(id, confirm) ==
  /\ currentSessionId # Null
  /\ id \in IdsOf(sessions)
  /\ IF ~confirm
       THEN UNCHANGED <<sessions, currentSessionId, chatStore, nextId>>
       ELSE LET Other(x) == x.id # id
            IN /\ sessions' = SelectSeq(sessions, Other)
               /\ chatStore' = DeleteChatSession(chatStore, id)
               /\ UNCHANGED <<currentSessionId, nextId>>
  /\ lastOp' = IF confirm THEN "handleDeleteSession" ELSE "handleDeleteSession:declined"
  /\ lastArgs' = <<id>>
  /\ UNCHANGED <<svcVars, focusVars, boardVars, tasks, dbTasks, isThinking, sends, handed>>

\* handleDeleteSession, from the bin button of a session of the history
\* panel; confirm is the answer to window.confirm.
HandleDeleteSession(id, confirm) ==
  /\ currentSessionId # Null
  /\ id \in IdsOf(sessions)
  /\ IF ~confirm
       THEN UNCHANGED <<sessions, currentSessionId, chatStore, nextId>>
       ELSE LET Other(x) == x.id # id
                updated == SelectSeq(sessions, Other)
                deleted == DeleteChatSession(chatStore, id)
                newS == CreateNewSession(RandomUUID(nextId))
            IN IF currentSessionId # id
                 THEN /\ sessions' = updated
                      /\ chatStore' = deleted
                      /\ UNCHANGED <<currentSessionId, nextId>>
                 ELSE IF Len(updated) > 0
                   THEN /\ sessions' = updated
                        /\ currentSessionId' = updated[1].id
                        /\ chatStore' = deleted
                        /\ UNCHANGED nextId
                   ELSE /\ sessions' = <<newS>>
                        /\ currentSessionId' = newS.id
                        /\ chatStore' = SaveChatSession(deleted, newS)
                        /\ nextId' = nextId + 1
  /\ lastOp' = IF confirm THEN "handleDeleteSession" ELSE "handleDeleteSession:declined"
  /\ lastArgs' = <<id>>
  /\ UNCHANGED <<svcVars, focusVars, boardVars, tasks, dbTasks, isThinking, sends, handed>>

\* A session of the history panel is clicked.
SelectSession(id) ==
  /\ currentSessionId # Null
  /\ id \in IdsOf(sessions)
  /\ currentSessionId' = id
  /\ lastOp' = "selectSession"
  /\ lastArgs' = <<>>
  /\ UNCHANGED <<svcVars, focusVars, boardVars, tasks, dbTasks, nextId, sessions, isThinking, sends,
                 chatStore, handed>>

\* handleSendMessage up to its await.  The submit button is disabled while
\* isThinking.
HandleSendMessage(inputText) ==
  /\ currentSessionId # Null
  /\ ~isThinking
  /\ Trim(inputText) # <<>>
  /\ LET userMsg == Message(RandomUUID(nextId), "user", inputText)
         updatedMessages == Append(CurrentMessages, userMsg)
         Sent(s) ==
           IF s.id = currentSessionId
             THEN [s EXCEPT
                     !.title = IF s.title = NewChatTitle \/
                                  (Len(s.messages) = 1 /\ s.messages[1].id = "init")
                                 THEN GenerateSessionTitle(inputText) ELSE @,
                     !.messages = updatedMessages]
             ELSE s
     IN /\ sessions' = [i \in 1..Len(sessions) |-> Sent(sessions[i])]
        /\ sends' = sends \cup {[currentSessionId |-> currentSessionId,
                                 updatedMessages |-> updatedMessages]}
  /\ isThinking' = TRUE
  /\ nextId' = nextId + 1
  /\ lastOp' = "handleSendMessage"
  /\ lastArgs' = <<>>
  /\ UNCHANGED <<svcVars, focusVars, boardVars, tasks, dbTasks, currentSessionId, chatStore, handed>>

\* handleSendMessage after its await, with the text chatWithCopilot returned
\* (an empty text adds no message).
HandleSendMessageResume(send, responseText) ==
  /\ send \in sends
  /\ IF responseText # <<>>
       THEN LET aiMsg == AiMessage(RandomUUID(nextId), responseText)
                IsIt(s) == s.id = send.currentSessionId
                i == FindIndex(sessions, IsIt)
                Answered(s) ==
                  IF s.id = send.currentSessionId
                    THEN [s EXCEPT !.messages = Append(send.updatedMessages, aiMsg)]
                    ELSE s
            IN /\ sessions' = [k \in 1..Len(sessions) |-> Answered(sessions[k])]
               /\ chatStore' = IF i # 0 THEN SaveChatSession(chatStore, Answered(sessions[i]))
                               ELSE chatStore
               /\ nextId' = nextId + 1
       ELSE UNCHANGED <<sessions, chatStore, nextId>>
  /\ isThinking' = FALSE
  /\ sends' = sends \ {send}
  /\ lastOp' = "handleSendMessage:resumed"
  /\ lastArgs' = responseText
  /\ UNCHANGED <<svcVars, focusVars, boardVars, tasks, dbTasks, currentSessionId, handed>>

\* handleSendMessage without its finally block: a thrown error leaves the
\* thinking state as it was.
HandleSendMessageFail_NoFinally(send) ==
  /\ send \in sends
  /\ sends' = sends \ {send}
  /\ lastOp' = "handleSendMessage:threw"
  /\ lastArgs' = <<>>
  /\ UNCHANGED <<svcVars, focusVars, boardVars, tasks, dbTasks, nextId, sessions, currentSessionId,
                 chatStore, handed, isThinking>>

\* chatWithCopilot throws: the error is logged; finally { setIsThinking(false) }.
HandleSendMessageFail(send) ==
  /\ send \in sends
  /\ isThinking' = FALSE
  /\ sends' = sends \ {send}
  /\ lastOp' = "handleSendMessage:threw"
  /\ lastArgs' = <<>>
  /\ UNCHANGED <<svcVars, focusVars, boardVars, tasks, dbTasks, nextId, sessions, currentSessionId,
                 chatStore, handed>>

\* index.toString()
IndexString(index) == <<"0", "1", "2", "3", "4", "5", "6", "7", "8", "9">>[index + 1]

Includes(list, x) == \E i \in 1..Len(list) : list[i] = x

\* A message of the current session that shows its "Suggested Tasks" block.
ShowsSuggestedTasks(m) ==
  /\ m.suggestedTasks # None
  /\ Len(m.appliedTaskIds) < Len(m.suggestedTasks[1])
  /\ ~Includes(m.rejectedTaskIds, "all")

\* The rows of the block that show the Add Task and Reject buttons.
ShowsButtons(m, index) ==
  /\ ShowsSuggestedTasks(m)
  /\ index \in 0..(Len(m.suggestedTasks[1]) - 1)
  /\ ~Includes(m.rejectedTaskIds, IndexString(index))
  /\ ~Includes(m.appliedTaskIds, IndexString(index))

\* setSessions(prev => prev.map(s => s.id === currentSessionId ? change the
\* messages with id msgId and save the session : s))
UpdateMessage(msgId, Change(_)) ==
  LET Changed(s) ==
        [s EXCEPT !.messages = [k \in 1..Len(s.messages) |->
                                  IF s.messages[k].id = msgId THEN Change(s.messages[k])
                                  ELSE s.messages[k]]]
      IsIt(s) == s.id = currentSessionId
      i == FindIndex(sessions, IsIt)
  IN /\ sessions' = [k \in 1..Len(sessions) |->
                       IF sessions[k].id = currentSessionId THEN Changed(sessions[k])
                       ELSE sessions[k]]
     /\ chatStore' = IF i # 0 THEN SaveChatSession(chatStore, Changed(sessions[i]))
                     ELSE chatStore

\* handleApplySingleTask marking the index on every message of the session.
HandleApplySingleTask_EveryMessage(msgId, index) ==
  /\ \E k \in 1..Len(CurrentMessages) :
       CurrentMessages[k].id = msgId /\ ShowsButtons(CurrentMessages[k], index)
  /\ LET m == CHOOSE m \in Range(CurrentMessages) : m.id = msgId
         Applied(x) == [x EXCEPT !.appliedTaskIds = Append(@, IndexString(index))]
         Changed(s) == [s EXCEPT !.messages = [k \in 1..Len(s.messages) |-> Applied(s.messages[k])]]
     IN /\ CopilotAddTasks(<<m.suggestedTasks[1][index + 1]>>)
        /\ sessions' = [k \in 1..Len(sessions) |->
                          IF sessions[k].id = currentSessionId THEN Changed(sessions[k])
                          ELSE sessions[k]]
        /\ chatStore' = SaveChatSession(chatStore, Changed(
                          CHOOSE s \in Range(sessions) : s.id = currentSessionId))
  /\ handed' = handed \cup {<<msgId, index>>}
  /\ lastOp' = "handleApplySingleTask"
  /\ UNCHANGED <<svcVars, focusVars, boardVars, currentSessionId, isThinking, sends>>

\* handleApplySingleTask, from the Add Task button of row index.
HandleApplySingleTask(msgId, index) ==
  /\ \E k \in 1..Len(CurrentMessages) :
       CurrentMessages[k].id = msgId /\ ShowsButtons(CurrentMessages[k], index)
  /\ LET m == CHOOSE m \in Range(CurrentMessages) : m.id = msgId
         Applied(x) == [x EXCEPT !.appliedTaskIds = Append(@, IndexString(index))]
     IN /\ CopilotAddTasks(<<m.suggestedTasks[1][index + 1]>>)
        /\ UpdateMessage(msgId, Applied)
  /\ handed' = handed \cup {<<msgId, index>>}
  /\ lastOp' = "handleApplySingleTask"
  /\ UNCHANGED <<svcVars, focusVars, boardVars, currentSessionId, isThinking, sends>>

\* handleRejectTask, from the Reject button of row index.
HandleRejectTask(msgId, index) ==
  /\ \E k \in 1..Len(CurrentMessages) :
       CurrentMessages[k].id = msgId /\ ShowsButtons(CurrentMessages[k], index)
  /\ LET Rejected(x) == [x EXCEPT !.rejectedTaskIds = Append(@, IndexString(index))]
     IN UpdateMessage(msgId, Rejected)
  /\ lastOp' = "handleRejectTask"
  /\ lastArgs' = <<>>
  /\ UNCHANGED <<svcVars, focusVars, boardVars, tasks, dbTasks, nextId, currentSessionId, isThinking,
                 sends, handed>>

\* The positions the Add All button keeps: neither applied nor rejected.
PendingPositions(m) ==
  LET Pending(i) == /\ ~Includes(m.appliedTaskIds, IndexString(i - 1))
                    /\ ~Includes(m.rejectedTaskIds, IndexString(i - 1))
  IN SelectSeq([i \in 1..Len(m.suggestedTasks[1]) |-> i], Pending)

\* handleApplyTasks(msgId, suggestedTasks)
ApplyTasks(msgId, suggestedTasks) ==
  LET Applied(m) ==
        LET Fresh(idx) == /\ ~Includes(m.appliedTaskIds, idx)
                          /\ ~Includes(m.rejectedTaskIds, idx)
        IN [m EXCEPT !.appliedTaskIds =
              @ \o SelectSeq([i \in 1..Len(suggestedTasks) |-> IndexString(i - 1)], Fresh)]
  IN /\ CopilotAddTasks(suggestedTasks)
     /\ UpdateMessage(msgId, Applied)

\* The Add All button of a message: handleApplyTasks with the suggestions
\* that are neither applied nor rejected.
HandleApplyTasks(msgId) ==
  /\ \E k \in 1..Len(CurrentMessages) :
       CurrentMessages[k].id = msgId /\ ShowsSuggestedTasks(CurrentMessages[k])
  /\ LET m == CHOOSE m \in Range(CurrentMessages) : m.id = msgId
         pos == PendingPositions(m)
     IN /\ ApplyTasks(msgId, [k \in 1..Len(pos) |-> m.suggestedTasks[1][pos[k]]])
        /\ handed' = handed \cup {<<msgId, pos[k] - 1>> : k \in 1..Len(pos)}
  /\ lastOp' = "handleApplyTasks"
  /\ UNCHANGED <<svcVars, focusVars, boardVars, currentSessionId, isThinking, sends>>

\* ------------------------------------------------------------ Dashboard
\* Each specification below stops generating ids at its own bound.
\* Page loads over the eras a user keeps.
LoadNext ==
  \/ Mount
  \/ \E l \in loads, day \in Days : LoadDataResume(l, day)
  \/ \E l \in loads : LoadDataFail(l)
  \/ \E range \in DateRanges : nextId <= LoadIds /\ HandleThemeSubmit(range)
  \/ \E id \in IdsOf(themes) : SelectTheme(id)

LoadSpec == Init /\ [][LoadNext]_vars

\* Creating and deleting eras, with tasks and stories filed under them.
ThemeNext ==
  \/ \E l \in loads : LoadDataResume(l, DefaultStart)
  \/ nextId <= ThemeIds /\ HandleThemeSubmit(<<DefaultStart, DefaultEnd>>)
  \/ \E id \in IdsOf(themes) : SelectTheme(id)
  \/ \E id \in IdsOf(themes) : HandleDeleteTheme(id)
  \/ \E d \in deletes, ok \in BOOLEAN : RemoteDeleteTheme(d, ok)
  \/ \E d \in deletes : HandleDeleteThemeResume(d)
  \/ nextId <= ThemeIds /\ HandleManualTaskSubmit("a", "")
  \/ nextId <= ThemeIds /\ HandleCopilotAddStory("Fit")

ThemeSpec == Init /\ [][ThemeNext]_vars

\* Tasks filed under the stories of any era (stories are global), and eras
\* deleted.
StoryIds == 4
StoryDeletes == 1

StoryNext ==
  \/ \E l \in loads : LoadDataResume(l, DefaultStart)
  \/ nextId <= StoryIds /\ HandleThemeSubmit(<<DefaultStart, DefaultEnd>>)
  \/ \E id \in IdsOf(themes) : HandleDeleteThemePending(id, StoryDeletes)
  \/ \E d \in deletes : RemoteDeleteTheme(d, TRUE)
  \/ \E d \in deletes : HandleDeleteThemeResume(d)
  \/ \E sid \in {""} \cup IdsOf(stories) :
       nextId <= StoryIds /\ HandleManualTaskSubmit("a", sid)
  \/ nextId <= StoryIds /\ HandleCopilotAddStory("Fit")

StorySpec == Init /\ [][StoryNext]_vars

\* Eras marked completed and re-opened while tasks are added by hand and
\* from Copilot suggestions.
CompleteIds == 4

CompleteNext ==
  \/ \E l \in loads : LoadDataResume(l, DefaultStart)
  \/ nextId <= CompleteIds /\ HandleThemeSubmit(<<DefaultStart, DefaultEnd>>)
  \/ \E id \in IdsOf(themes) : SelectTheme(id)
  \/ \E id \in IdsOf(themes) : HandleToggleThemeComplete(id)
  \/ nextId <= CompleteIds /\ HandleManualTaskSubmit("a", "")
  \/ \E id \in IdsOf(tasks) : DeleteTask(id)
  \/ \E sugs \in SuggestionLists :
       /\ nextId + Len(sugs) - 1 <= CompleteIds
       /\ Len(tasks) + Len(TasksToCreate(tasks, stories, sugs, nextId, currentThemeId)) <= MaxTasks
       /\ HandleCopilotAddTasks(sugs)

CompleteSpec == Init /\ [][CompleteNext]_vars

\* Copilot suggestions applied to the tasks and stories of one page load.
ApplyNext ==
  \/ \E l \in loads : LoadDataResume(l, DefaultStart)
  \/ \E id \in IdsOf(tasks) : ToggleTask(id)
  \/ \E id \in IdsOf(tasks) : DeleteTask(id)
  \/ \E title \in StoryTitles : nextId <= ApplyIds /\ HandleCopilotAddStory(title)
  \/ \E sugs \in SuggestionLists :
       /\ nextId + Len(sugs) - 1 <= ApplyIds
       /\ Len(tasks) + Len(TasksToCreate(tasks, stories, sugs, nextId, currentThemeId)) <= MaxTasks
       /\ HandleCopilotAddTasks(sugs)

ApplySpec == Init /\ [][ApplyNext]_vars

\* What chatWithCopilot answers in a conversation about tasks.
ChatResponses ==
  {<<>>, <<"ok">>,
   <<"ok", " ", OpenTag("TASKS"), TasksJson3, CloseTag>>}

\* Conversations with the Copilot and the suggestions taken from them.
ChatNext ==
  \/ \E l \in loads : LoadDataResume(l, DefaultStart)
  \/ CopilotMount
  \/ nextId <= ChatIds /\ HandleNewChat
  \/ \E id \in IdsOf(sessions) : SelectSession(id)
  \/ nextId <= ChatIds /\ HandleSendMessage(<<"plan">>)
  \/ \E send \in sends, responseText \in ChatResponses :
       nextId <= ChatIds /\ HandleSendMessageResume(send, responseText)
  \/ \E send \in sends : HandleSendMessageFail(send)
  \/ \E msgId \in IdsOf(CurrentMessages), index \in 0..2 :
       nextId <= ChatIds /\ HandleApplySingleTask(msgId, index)
  \/ \E msgId \in IdsOf(CurrentMessages), index \in 0..2 : HandleRejectTask(msgId, index)
  \/ \E msgId \in IdsOf(CurrentMessages) : nextId <= ChatIds /\ HandleApplyTasks(msgId)

ChatSpec == Init /\ [][ChatNext]_vars

\* The promise chatWithCopilot returns settles, with a text or an error, and
\* the event loop then runs the rest of handleSendMessage.
Settles ==
  \E send \in sends :
    \/ \E responseText \in ChatResponses :
         nextId <= ChatIds /\ HandleSendMessageResume(send, responseText)
    \/ HandleSendMessageFail(send)

\* The history panel: chats opened, picked and deleted while messages are
\* sent and answered.
SessionIds == 6

SessionNext ==
  \/ \E l \in loads : LoadDataResume(l, DefaultStart)
  \/ CopilotMount
  \/ nextId <= SessionIds /\ HandleNewChat
  \/ \E id \in IdsOf(sessions) : SelectSession(id)
  \/ \E id \in IdsOf(sessions), confirm \in BOOLEAN :
       nextId <= SessionIds /\ HandleDeleteSession(id, confirm)
  \/ nextId <= SessionIds /\ HandleSendMessage(<<"plan">>)
  \/ \E send \in sends, responseText \in {<<>>, <<"ok">>} :
       nextId <= SessionIds /\ HandleSendMessageResume(send, responseText)
  \/ \E send \in sends : HandleSendMessageFail(send)

SessionSpec == Init /\ [][SessionNext]_vars

\* Conversations alone: messages sent and answered, chats opened and picked.
ChatLiveNext ==
  \/ \E l \in loads : LoadDataResume(l, DefaultStart)
  \/ CopilotMount
  \/ nextId <= ChatIds /\ HandleNewChat
  \/ \E id \in IdsOf(sessions) : SelectSession(id)
  \/ nextId <= ChatIds /\ HandleSendMessage(<<"plan">>)
  \/ \E msgId \in IdsOf(CurrentMessages), index \in 0..2 : HandleRejectTask(msgId, index)
  \/ Settles

ChatLiveSpec == Init /\ [][ChatLiveNext]_vars /\ WF_chatVars(Settles)

\* The texts chatWithCopilot may answer with, as lists of segments: prose,
\* white space, a block of some type around a JSON text that is complete,
\* cut short, padded or missing, and tags without their partner.
Block(type, payload) == <<OpenTag(type)>> \o payload \o <<CloseTag>>

Payloads(type) ==
  LET good == CASE type = "TASKS" -> {TasksJson3, TasksJson1}
                [] type = "THEME" -> {ThemeJson, ThemeJson2}
                [] type = "STORY" -> {StoryJson, StoryJson2}
  IN {<<j>> : j \in good} \cup {<<BrokenJson>>, <<>>} \cup
     (IF type = "TASKS" THEN {<<" ", TasksJson1, " ">>} ELSE {})

ActionTypes == {"TASKS", "THEME", "STORY"}

Blocks(type) == {Block(type, payload) : payload \in Payloads(type)}

Segments ==
  {<<"ok">>, <<" ">>, <<OpenTag("TASKS")>>, <<CloseTag>>} \cup UNION {Blocks(type) : type \in ActionTypes}

SegmentLists == UNION {[1..n -> Segments] : n \in 1..MaxSegs}

RECURSIVE Flatten(_)
Flatten(segs) == IF segs = <<>> THEN <<>> ELSE Head(segs) \o Flatten(Tail(segs))

\* One question to the Copilot and the message made of its answer.
ParseNext ==
  \/ \E l \in loads : LoadDataResume(l, DefaultStart)
  \/ CopilotMount
  \/ \E inputText \in InputTexts : nextId + 1 <= ParseIds /\ HandleSendMessage(inputText)
  \/ \E send \in sends, segs \in SegmentLists :
       nextId <= ParseIds /\ HandleSendMessageResume(send, Flatten(segs))

ParseSpec == Init /\ [][ParseNext]_vars

\* ================================================================ claims
\* The position in IdPool of a generated id: its creation order.
CreationOrder(id) == CHOOSE n \in 1..Len(IdPool) : IdPool[n] = id

\* --------------------------------------------------------------------
\* C1: handleDeleteTheme invoked while the local theme list holds exactly
\* one theme is rejected: no remote delete is issued and themes, tasks,
\* stories and currentThemeId are all left unchanged.
C1_LastThemeDeleteRejected ==
  [][(lastOp' = "handleDeleteTheme" /\ Len(themes) = 1) =>
       /\ UNCHANGED <<themes, tasks, stories, currentThemeId>>
       /\ UNCHANGED <<deletes, dbThemes, dbTasks, dbStories>>]_vars

\* A delete of the only theme was attempted and answered with the alert.
C1_Witness ==
  /\ lastOp = "handleDeleteTheme"
  /\ Len(themes) = 1
  /\ lastAlert = NeedOneEra
  /\ deletes = {}

\* --------------------------------------------------------------------
\* C2: when the remote delete succeeds, handleDeleteTheme(id) removes from
\* local state exactly the theme with that id, every task whose themeId is
\* id and every story whose themeId is id; all other themes, tasks and
\* stories remain in local state unchanged.
RemovedExactly(before, after, Gone(_)) ==
  /\ Range(after) = {x \in Range(before) : ~Gone(x)}
  /\ Len(after) = Cardinality({i \in 1..Len(before) : ~Gone(before[i])})

C2_DeleteThemeRemovesExactly ==
  [][\A d \in deletes :
       (lastOp' = "handleDeleteTheme:resumed" /\ d \notin deletes') =>
         LET IsTheme(t) == t.id = d.themeId
             RefersTo(x) == x.themeId = d.themeId
         IN /\ RemovedExactly(themes, themes', IsTheme)
            /\ RemovedExactly(tasks, tasks', RefersTo)
            /\ RemovedExactly(stories, stories', RefersTo)]_vars

\* A delete went through and left behind an era with a task of its own.
C2_Witness ==
  /\ lastOp = "handleDeleteTheme:resumed"
  /\ Len(themes) = 1
  /\ \E i \in 1..Len(tasks) : tasks[i].themeId = themes[1].id

\* ------------------------------------------------ blocks of a response
\* In a step that resumes handleSendMessage, lastArgs' is the text
\* chatWithCopilot returned.
IsOpenTag(x) == \E type \in ActionTypes : x = OpenTag(type)

TypeOfTag(x) == CHOOSE type \in ActionTypes : x = OpenTag(type)

TagPositions(text) ==
  LET IsTag(i) == IsOpenTag(text[i]) \/ text[i] = CloseTag
  IN SelectSeq([i \in 1..Len(text) |-> i], IsTag)

\* The blocks of the text do not overlap: every opening tag is followed by
\* its closing tag before the next opening tag, and no tag is left over.
NonOverlapping(text) ==
  LET tp == TagPositions(text)
  IN /\ Len(tp) % 2 = 0
     /\ \A k \in 1..Len(tp) : IF k % 2 = 1 THEN IsOpenTag(text[tp[k]]) ELSE text[tp[k]] = CloseTag

\* The blocks of a non-overlapping text, in order.
BlocksOf(text) ==
  LET tp == TagPositions(text)
  IN [k \in 1..(Len(tp) \div 2) |->
        [type |-> TypeOfTag(text[tp[2 * k - 1]]),
         payload |-> SubSeq(text, tp[2 * k - 1] + 1, tp[2 * k] - 1)]]

\* The text around the blocks.
ProseOf(text) ==
  LET tp == TagPositions(text)
      Outside(i) == \A k \in 1..(Len(tp) \div 2) : i < tp[2 * k - 1] \/ i > tp[2 * k]
  IN [k \in 1..Len(SelectSeq([i \in 1..Len(text) |-> i], Outside)) |->
        text[SelectSeq([i \in 1..Len(text) |-> i], Outside)[k]]]

WellFormed(block) == JsonParse(block.payload) # None

BlocksOfType(text, type) ==
  LET Is(b) == b.type = type IN SelectSeq(BlocksOf(text), Is)

\* The messages a step added to the sessions.
NewMessages ==
  LET All(ss) == UNION {Range(ss[k].messages) : k \in 1..Len(ss)}
  IN {m \in All(sessions') : m.id \notin {x.id : x \in All(sessions)}}

\* --------------------------------------------------------------------
\* C3: for a response with one well-formed TASKS block and one malformed
\* THEME block, handleSendMessage produces an AI message whose
\* suggestedTasks is the parsed task list, whose suggestedTheme is
\* undefined, and whose text has both blocks stripped and the surrounding
\* prose intact.
OneGoodTasksOneBadTheme(text) ==
  /\ NonOverlapping(text)
  /\ Len(BlocksOf(text)) = 2
  /\ Len(BlocksOfType(text, "TASKS")) = 1
  /\ Len(BlocksOfType(text, "THEME")) = 1
  /\ WellFormed(BlocksOfType(text, "TASKS")[1])
  /\ ~WellFormed(BlocksOfType(text, "THEME")[1])

C3_GoodTasksBadTheme ==
  [][(lastOp' = "handleSendMessage:resumed" /\ OneGoodTasksOneBadTheme(lastArgs')) =>
       /\ Cardinality(NewMessages) = 1
       /\ \A m \in NewMessages :
            /\ m.sender = "ai"
            /\ m.suggestedTasks = JsonParse(BlocksOfType(lastArgs', "TASKS")[1].payload)
            /\ m.suggestedTheme = None
            /\ m.text = Trim(ProseOf(lastArgs'))]_vars

\* Such a response, with prose in it, has been answered with a message that
\* shows the prose and carries the tasks.
C3_Witness ==
  /\ lastOp = "handleSendMessage:resumed"
  /\ OneGoodTasksOneBadTheme(lastArgs)
  /\ Len(BlocksOfType(lastArgs, "THEME")[1].payload) > 0
  /\ \E s \in Range(sessions) :
       LET m == s.messages[Len(s.messages)]
       IN /\ m.text = <<"ok">>
          /\ m.suggestedTasks # None
          /\ m.suggestedTheme = None

\* --------------------------------------------------------------------
\* C4 as stated: for every response, each of its non-overlapping blocks of
\* type TASKS, THEME or STORY is parsed and every well-formed block
\* contributes its payload to the AI message's suggestions, also when two
\* or more blocks have the same type.
Contributes(block, m) ==
  LET value == JsonParse(block.payload)[1]
  IN CASE block.type = "TASKS" ->
            /\ m.suggestedTasks # None
            /\ \A i \in 1..Len(value) : Includes(m.suggestedTasks[1], value[i])
       [] block.type = "THEME" -> m.suggestedTheme = Some(value)
       [] block.type = "STORY" -> m.suggestedStory = Some(value)

C4_EveryBlockContributes ==
  [][(lastOp' = "handleSendMessage:resumed" /\ lastArgs' # <<>> /\ NonOverlapping(lastArgs')) =>
       \A m \in NewMessages :
         \A k \in 1..Len(BlocksOf(lastArgs')) :
           WellFormed(BlocksOf(lastArgs')[k]) => Contributes(BlocksOf(lastArgs')[k], m)]_vars

\* C4 amended: for every response with non-overlapping blocks, the FIRST
\* block of each type is parsed and, when well-formed, its payload is the
\* AI message's suggestion of that type, whatever becomes of the blocks of
\* the other types; a type without a well-formed first block leaves its
\* suggestion undefined; further blocks of a type already seen are stripped
\* from the text without being parsed.  Every block is stripped.
Suggested(m, type) ==
  CASE type = "TASKS" -> m.suggestedTasks
    [] type = "THEME" -> m.suggestedTheme
    [] type = "STORY" -> m.suggestedStory

C4_FirstBlockOfEachType ==
  [][(lastOp' = "handleSendMessage:resumed" /\ lastArgs' # <<>> /\ NonOverlapping(lastArgs')) =>
       /\ Cardinality(NewMessages) = 1
       /\ \A m \in NewMessages :
            /\ \A type \in ActionTypes :
                 Suggested(m, type) =
                   IF Len(BlocksOfType(lastArgs', type)) > 0
                     THEN JsonParse(BlocksOfType(lastArgs', type)[1].payload)
                     ELSE None
            /\ m.text = Trim(ProseOf(lastArgs'))]_vars

\* A response with two different well-formed TASKS blocks was answered with
\* the tasks of the first.
C4_Witness ==
  /\ lastOp = "handleSendMessage:resumed"
  /\ NonOverlapping(lastArgs)
  /\ Len(BlocksOfType(lastArgs, "TASKS")) = 2
  /\ WellFormed(BlocksOfType(lastArgs, "TASKS")[1])
  /\ WellFormed(BlocksOfType(lastArgs, "TASKS")[2])
  /\ BlocksOfType(lastArgs, "TASKS")[1].payload = <<TasksJson1>>
  /\ BlocksOfType(lastArgs, "TASKS")[2].payload = <<TasksJson3>>
  /\ \E s \in Range(sessions) :
       s.messages[Len(s.messages)].suggestedTasks = JsonParse(<<TasksJson1>>)

\* ------------------------------------------------ suggestions applied
\* In a step of handleCopilotAddTasks, lastArgs' is the list it was called
\* with.  A suggestion updates when its id is the id of a local task, and
\* creates otherwise.
Updates(t) == Truthy(t.id) /\ t.id \in IdsOf(tasks)

Creating(sugs) == {i \in 1..Len(sugs) : ~Updates(sugs[i])}

\* The task that suggestion i of the list left on the board: the updated
\* task, or the new task (new tasks are put first, in the list's order).
ResultOf(sugs, i) ==
  IF Updates(sugs[i])
    THEN tasks'[CHOOSE j \in 1..Len(tasks') : tasks'[j].id = sugs[i].id]
    ELSE tasks'[Cardinality({k \in Creating(sugs) : k <= i})]

TaskBefore(id) == tasks[CHOOSE j \in 1..Len(tasks) : tasks[j].id = id]

MatchesById(storyId) == {s \in Range(stories) : s.id = storyId}

MatchesByTitle(storyId) ==
  {s \in Range(stories) : ToLowerCase(s.title) = ToLowerCase(storyId)}

\* --------------------------------------------------------------------
\* C5: in handleCopilotAddTasks a suggestion's storyId is resolved against
\* the known stories by exact id first and, only if no story has that id,
\* by case-insensitive title; when either match succeeds the resulting
\* task's storyId is the matched story's id.
C5_StoryResolvedByIdThenTitle ==
  [][lastOp' = "handleCopilotAddTasks" =>
       \A i \in 1..Len(lastArgs') :
         LET storyId == lastArgs'[i].storyId
             result == ResultOf(lastArgs', i)
         IN Truthy(storyId) =>
              IF MatchesById(storyId) # {} THEN result.storyId = storyId
              ELSE MatchesByTitle(storyId) # {} =>
                     \E s \in MatchesByTitle(storyId) : result.storyId = s.id]_vars

\* A suggestion naming a story by its id was applied while another story
\* had that id for a title.
C5_Witness ==
  /\ lastOp = "handleCopilotAddTasks"
  /\ Len(lastArgs) = 1
  /\ \E s1, s2 \in Range(stories) :
       /\ s1.id = lastArgs[1].storyId
       /\ s2.title = lastArgs[1].storyId
       /\ s2.id # s1.id
       /\ tasks[1].storyId = s1.id

\* --------------------------------------------------------------------
\* C6 as stated: for every suggestion applied through
\* handleCopilotAddTasks, whether it creates a task or updates one, a
\* storyId that matches no known story by id or by case-insensitive title
\* leaves the resulting task without a story association.
C6_UnmatchedStoryAlwaysDropped ==
  [][lastOp' = "handleCopilotAddTasks" =>
       \A i \in 1..Len(lastArgs') :
         LET storyId == lastArgs'[i].storyId
         IN (storyId # Undefined /\ MatchesById(storyId) = {} /\ MatchesByTitle(storyId) = {})
              => ~Truthy(ResultOf(lastArgs', i).storyId)]_vars

\* C6 amended: a storyId that matches no known story leaves a NEW task
\* without a story association; on an UPDATE a non-empty unmatched storyId
\* is ignored and the task keeps the association it had (an empty storyId
\* clears it).
C6_UnmatchedStoryDroppedOrKept ==
  [][lastOp' = "handleCopilotAddTasks" =>
       \A i \in 1..Len(lastArgs') :
         LET storyId == lastArgs'[i].storyId
             result == ResultOf(lastArgs', i)
         IN (storyId # Undefined /\ MatchesById(storyId) = {} /\ MatchesByTitle(storyId) = {})
              => IF ~Updates(lastArgs'[i]) THEN ~Truthy(result.storyId)
                 ELSE IF storyId = "" THEN ~Truthy(result.storyId)
                 ELSE result.storyId = TaskBefore(lastArgs'[i].id).storyId]_vars

\* An update naming a story nobody knows was applied to a task of a story,
\* and the task is still in that story.
C6_Witness ==
  /\ lastOp = "handleCopilotAddTasks"
  /\ \E i \in 1..Len(lastArgs), t \in Range(tasks) :
       /\ lastArgs[i].id = t.id
       /\ lastArgs[i].storyId = "nope"
       /\ t.storyId \in IdsOf(stories)

\* --------------------------------------------------------------------
\* C7: a suggestion whose id is an existing local task's id updates that
\* task in place: no task is added for it and the task keeps its place,
\* id, themeId and completed flag.  A suggestion that omits the id adds
\* exactly one new task, with a fresh id, in the current theme, and leaves
\* every existing task unchanged.
C7_UpdateInPlaceOrAddOne ==
  [][lastOp' = "handleCopilotAddTasks" =>
       LET sugs == lastArgs'
           added == Cardinality(Creating(sugs))
           updatedIds == {sugs[i].id : i \in (1..Len(sugs)) \ Creating(sugs)}
       IN /\ Len(tasks') = Len(tasks) + added
          /\ \A j \in 1..Len(tasks) :
               /\ tasks'[j + added].id = tasks[j].id
               /\ tasks'[j + added].themeId = tasks[j].themeId
               /\ tasks'[j + added].completed = tasks[j].completed
               /\ tasks[j].id \notin updatedIds => tasks'[j + added] = tasks[j]
          /\ \A k \in 1..added :
               /\ tasks'[k].id \notin IdsOf(tasks) \cup IdsOf(stories) \cup IdsOf(themes)
               /\ tasks'[k].themeId = currentThemeId
               /\ \A j \in 1..added : j # k => tasks'[j].id # tasks'[k].id]_vars

\* One list both added a task and updated a completed one.
C7_Witness ==
  /\ lastOp = "handleCopilotAddTasks"
  /\ Len(lastArgs) = 2
  /\ Len(tasks) = 2
  /\ lastArgs[1].id = Undefined
  /\ lastArgs[2].id = tasks[2].id
  /\ tasks[2].completed

\* ------------------------------------------------- suggestions marked
\* The positions of a message's suggestions its appliedTaskIds name.
AppliedPositions(m) ==
  {i \in 0..(Len(m.suggestedTasks[1]) - 1) : Includes(m.appliedTaskIds, IndexString(i))}

RejectedPositions(m) ==
  {i \in 0..(Len(m.suggestedTasks[1]) - 1) : Includes(m.rejectedTaskIds, IndexString(i))}

\* --------------------------------------------------------------------
\* C8: handleApplySingleTask for index i of a message with several
\* suggestions marks exactly index i as applied on that message; every
\* other index keeps its status, and no other message and no other session
\* is changed.
C8_SingleApplyMarksOnlyIndex ==
  [][\A msgId \in IdsOf(CurrentMessages), index \in 0..9 :
       (lastOp' = "handleApplySingleTask" /\ HandleApplySingleTask(msgId, index)) =>
         /\ Len(sessions') = Len(sessions)
         /\ \A k \in 1..Len(sessions) :
              IF sessions[k].id # currentSessionId THEN sessions'[k] = sessions[k]
              ELSE /\ Len(sessions'[k].messages) = Len(sessions[k].messages)
                   /\ \A j \in 1..Len(sessions[k].messages) :
                        LET m == sessions[k].messages[j]
                            n == sessions'[k].messages[j]
                        IN IF m.id # msgId THEN n = m
                           ELSE /\ n = [m EXCEPT !.appliedTaskIds = n.appliedTaskIds]
                                /\ AppliedPositions(n) = AppliedPositions(m) \cup {index}
                                /\ RejectedPositions(n) = RejectedPositions(m)
                                /\ Len(n.appliedTaskIds) = Len(m.appliedTaskIds) + 1]_vars

\* With two sessions in the history, one suggestion of three was applied on
\* its own and the other two are still pending.
C8_Witness ==
  /\ lastOp = "handleApplySingleTask"
  /\ Len(sessions) = 2
  /\ \E m \in Range(CurrentMessages) :
       /\ m.suggestedTasks # None
       /\ Len(m.suggestedTasks[1]) = 3
       /\ m.appliedTaskIds = <<"1">>
       /\ m.rejectedTaskIds = <<>>

\* --------------------------------------------------------------------
\* C9: after any sequence of single-apply, reject and Add All actions on a
\* suggestion message, the message's appliedTaskIds is exactly the set of
\* positions in suggestedTasks whose tasks were handed to onAddTasks.
C9_AppliedIsWhatWasHanded ==
  \A s \in Range(sessions) : \A m \in Range(s.messages) :
    m.suggestedTasks # None =>
      AppliedPositions(m) = {i \in 0..(Len(m.suggestedTasks[1]) - 1) : <<m.id, i>> \in handed}

\* --------------------------------------------------------------------
\* C10: on initial load with no theme selected, loadData selects as current
\* a theme whose [startDate, endDate] range contains today's date; when no
\* theme's range contains today, it selects the most recently created
\* theme.
ContainsDay(t, day) == day >= t.startDate /\ day <= t.endDate

MostRecentlyCreated(ths) ==
  CHOOSE t \in Range(ths) : \A u \in Range(ths) : CreationOrder(u.id) <= CreationOrder(t.id)

C10_InitialSelection ==
  [][\A l \in loads, day \in Days :
       (lastOp' = "loadData():resumed" /\ LoadDataResume(l, day)) =>
         IF \E t \in Range(themes') : ContainsDay(t, day)
           THEN \E t \in Range(themes') : ContainsDay(t, day) /\ currentThemeId' = t.id
           ELSE currentThemeId' = MostRecentlyCreated(themes').id]_vars

\* The part of C10 the code keeps: a theme containing today is selected
\* whenever there is one.
C10_ContainingThemeSelected ==
  [][\A l \in loads, day \in Days :
       (lastOp' = "loadData():resumed" /\ LoadDataResume(l, day)) =>
         ((\E t \in Range(themes') : ContainsDay(t, day)) =>
            \E t \in Range(themes') : ContainsDay(t, day) /\ currentThemeId' = t.id)]_vars

\* --------------------------------------------------------------------
\* C11: at every moment after initial load exactly one theme is treated as
\* current: the theme displayed as current (currentTheme) is the theme
\* identified by currentThemeId, the id that filters the visible tasks and
\* stamps new tasks and stories.
C11_OneCurrentTheme ==
  UIReady =>
    /\ CurrentTheme.id = currentThemeId
    /\ Cardinality({i \in 1..Len(themes) : themes[i].id = currentThemeId}) = 1

\* --------------------------------------------------------------------
\* C12: after initial load, across task add/edit/delete, Copilot apply,
\* theme create/delete and refetch, every task in local state has a themeId
\* equal to the id of a theme in the local theme list.
C12_TaskThemeInThemes ==
  UIReady => \A i \in 1..Len(tasks) : tasks[i].themeId \in IdsOf(themes)

\* --------------------------------------------------------------------
\* C13: every mutating user action (add, toggle, edit, delete of tasks;
\* create, complete, delete of themes; create of stories) sets the new local
\* state before its persistence call is issued.  So whenever the database
\* applies a call of a user action, local state already holds the new value:
\* a row the call stored is in local state, a theme or task the call deleted
\* is no longer in local state.
UserActionStep == lastOp' \notin {"mount", "loadData():resumed", "loadData(true):resumed"}

C13_LocalStateSetBeforePersistence ==
  [][UserActionStep =>
       /\ \A r \in dbThemes \ dbThemes' : r.id \notin IdsOf(themes')
       /\ \A r \in dbThemes' \ dbThemes : r \in Range(themes')
       /\ \A r \in dbTasks' \ dbTasks :
            \E i \in 1..Len(tasks') : ToDbTask(tasks'[i]) = r
       /\ \A r \in dbStories' \ dbStories :
            r.themeId # Null => \E i \in 1..Len(stories') : ToDbStory(stories'[i]) = r
       /\ \A r \in dbTasks \ dbTasks' :
            r.id \notin {x.id : x \in dbTasks'} /\ r.themeId \in {x.id : x \in dbThemes'}
              => r.id \notin IdsOf(tasks')]_vars

\* ====================================================================
\* Failing persistence calls and a second device of the same user.

\* Bounds on the ids generated in one run of SyncSpec and on the tasks the
\* device holds at a time.
SyncIds == 2
SyncTasks == 1

\* addTask(title, ...): the task is put first in the list, then saved.  A
\* save the service refuses (ok = FALSE) makes saveTasks throw; addTask has
\* no catch, so nothing after the await runs and the state set before it stays.
AddTask(title, ok) ==
  /\ UIReady
  /\ Len(tasks) < MaxTasks
  /\ LET task == [id |-> RandomUUID(nextId), themeId |-> currentThemeId,
                  storyId |-> Undefined, title |-> title, completed |-> FALSE]
     IN /\ tasks' = <<task>> \o tasks
        /\ dbTasks' = IF ok THEN SaveTasks(dbTasks, <<task>>) ELSE dbTasks
  /\ nextId' = nextId + 1
  /\ lastOp' = IF ok THEN "addTask" ELSE "addTask:saveFailed"
  /\ UNCHANGED <<themes, stories, currentThemeId, loading, dbThemes,
                 dbStories, loads, deletes, lastAlert>>
  /\ lastArgs' = <<>>
  /\ UNCHANGED <<chatVars, svcVars, focusVars>>

\* toggleTask whose saveTasks is refused, with the state restored on failure.
ToggleTaskRejected_RollsBack(id) ==
  /\ UIReady
  /\ id \in IdsOf(tasks)
  /\ tasks' = tasks
  /\ lastOp' = "toggleTask:saveFailed"
  /\ UNCHANGED <<themes, stories, currentThemeId, loading, nextId, dbThemes,
                 dbTasks, dbStories, loads, deletes, lastAlert>>
  /\ lastArgs' = <<>>
  /\ UNCHANGED <<chatVars, svcVars, focusVars>>

\* toggleTask whose saveTasks is refused: setTasks ran before the await and
\* the rejection is not caught.
ToggleTaskRejected(id) ==
  /\ UIReady
  /\ LET IsIt(t) == t.id = id
         i == FindIndex(tasks, IsIt)
     IN /\ i # 0
        /\ LET updatedTask == [tasks[i] EXCEPT !.completed = ~tasks[i].completed]
           IN tasks' = [j \in 1..Len(tasks) |-> IF tasks[j].id = id THEN updatedTask ELSE tasks[j]]
  /\ lastOp' = "toggleTask:saveFailed"
  /\ UNCHANGED <<themes, stories, currentThemeId, loading, nextId, dbThemes,
                 dbTasks, dbStories, loads, deletes, lastAlert>>
  /\ lastArgs' = <<>>
  /\ UNCHANGED <<chatVars, svcVars, focusVars>>

\* deleteTask whose remote delete is refused.
DeleteTaskRejected(id) ==
  /\ UIReady
  /\ id \in IdsOf(tasks)
  /\ LET Keep(t) == t.id # id IN tasks' = SelectSeq(tasks, Keep)
  /\ lastOp' = "deleteTask:deleteFailed"
  /\ UNCHANGED <<themes, stories, currentThemeId, loading, nextId, dbThemes,
                 dbTasks, dbStories, loads, deletes, lastAlert>>
  /\ lastArgs' = <<>>
  /\ UNCHANGED <<chatVars, svcVars, focusVars>>

\* What another device of the same user may send for a stored task: the row
\* as that device holds it, with its own edit of the title or of completed.
OtherDeviceEdits(row) ==
  {[row EXCEPT !.title = ti, !.completed = c] : ti \in {row.title, "z"}, c \in BOOLEAN}

\* toggleTask / handleManualTaskSubmit on another device: saveTasks([task]).
OtherDeviceSaveTasks(task) ==
  /\ task.id \in {r.id : r \in dbTasks}
  /\ dbTasks' = SaveTasks(dbTasks, <<task>>)
  /\ lastOp' = "otherDevice:saveTasks"
  /\ lastArgs' = <<task>>
  /\ UNCHANGED <<themes, tasks, stories, currentThemeId, loading, nextId,
                 dbThemes, dbStories, loads, deletes, lastAlert>>
  /\ UNCHANGED <<chatVars, svcVars, focusVars>>

\* One device adding, toggling and deleting tasks with a service that may
\* refuse a call, another device editing the same rows, and the refetch on
\* focus (here one refetch in flight at a time).
SyncNext ==
  \/ \E l \in loads : LoadDataResume(l, DefaultStart)
  \/ loads = {} /\ LoadDataBackground
  \/ \E ok \in BOOLEAN :
       nextId <= SyncIds /\ Len(tasks) < SyncTasks /\ AddTask("a", ok)
  \/ \E id \in IdsOf(tasks) : ToggleTask(id)
  \/ \E id \in IdsOf(tasks) : ToggleTaskRejected(id)
  \/ \E id \in IdsOf(tasks) : DeleteTask(id)
  \/ \E id \in IdsOf(tasks) : DeleteTaskRejected(id)
  \/ \E row \in dbTasks : \E task \in OtherDeviceEdits(row) : OtherDeviceSaveTasks(task)

SyncSpec == Init /\ [][SyncNext]_vars

\* --------------------------------------------------------------------
\* The rows saveTasks would send for the local tasks.
LocalRows(list) == {ToDbTask(list[i]) : i \in 1..Len(list)}

SaveFailed == {"addTask:saveFailed", "toggleTask:saveFailed", "deleteTask:deleteFailed"}

\* C14: when the persistence call of addTask, toggleTask or deleteTask fails,
\* local state is not rolled back: it keeps the optimistic value (the task
\* added first in the list, the task toggled, the task removed) while the
\* database keeps what it had, so the two differ where they agreed before;
\* a later refetch replaces local state with the rows it loaded.
C14_NoRollbackOnFailedSave ==
  [][/\ lastOp' \in SaveFailed =>
          /\ dbTasks' = dbTasks
          /\ LocalRows(tasks) = dbTasks => LocalRows(tasks') # dbTasks'
     /\ lastOp' = "addTask:saveFailed" =>
          /\ tasks' # <<>> /\ Tail(tasks') = tasks
          /\ Head(tasks').id \notin IdsOf(tasks)
          /\ ~Head(tasks').completed
     /\ lastOp' = "toggleTask:saveFailed" =>
          /\ Len(tasks') = Len(tasks)
          /\ \E i \in 1..Len(tasks) :
               /\ tasks'[i] = [tasks[i] EXCEPT !.completed = ~tasks[i].completed]
               /\ \A j \in 1..Len(tasks) : j # i => tasks'[j] = tasks[j]
     /\ lastOp' = "deleteTask:deleteFailed" =>
          \E i \in 1..Len(tasks) :
            /\ tasks' = SubSeq(tasks, 1, i - 1) \o SubSeq(tasks, i + 1, Len(tasks))
            /\ tasks[i].id \in {r.id : r \in dbTasks} => tasks[i].id \in {r.id : r \in dbTasks'}
     /\ lastOp' = "loadData(true):resumed" =>
          \E l \in loads : tasks' = l.loadedTasks]_vars

\* A toggle was refused: the task is completed locally and not in the table.
C14_Witness ==
  /\ lastOp = "toggleTask:saveFailed"
  /\ \E i \in 1..Len(tasks) : \E r \in dbTasks :
       r.id = tasks[i].id /\ tasks[i].completed /\ ~r.completed

\* ====================================================================
\* The persistence adapter under row-level security, called by two users.

\* Longest list handed to one save call.
MaxSave == 2

NotAuthenticated == "User not authenticated"

\* The rows the save functions build: the record's columns and user_id.
TaskRow(t, userId) ==
  [id |-> t.id, user_id |-> userId, themeId |-> t.themeId,
   storyId |-> ToDbTask(t).storyId, title |-> t.title, completed |-> t.completed]

ThemeRow(t, userId) ==
  [id |-> t.id, user_id |-> userId, startDate |-> t.startDate,
   endDate |-> t.endDate, completed |-> t.completed]

StoryRow(st, userId) ==
  [id |-> st.id, user_id |-> userId, themeId |-> ToDbStory(st).themeId,
   title |-> st.title, createdAt |-> st.createdAt]

\* Row-level security on an upsert: the insert policy checks the new row
\* (auth.uid() = user_id), and on a primary-key conflict the update policy
\* checks the stored row; a payload naming one key twice is refused.
PolicyAllowsUpsert(table, rows, uid) ==
  /\ \A r1, r2 \in rows : r1.id = r2.id => r1 = r2
  /\ \A r \in rows : r.user_id = uid
  /\ \A r \in rows : \A old \in table : old.id = r.id => old.user_id = uid

\* Foreign keys of the tables (checked whoever owns the referenced row).
TaskKeysHold(rows) ==
  \A r \in rows :
    /\ r.themeId \in {t.id : t \in dbThemes}
    /\ r.storyId = Null \/ r.storyId \in {st.id : st \in dbStories}

StoryKeysHold(rows) ==
  \A r \in rows : r.themeId = Null \/ r.themeId \in {t.id : t \in dbThemes}

AdapterFrame ==
  /\ lastArgs' = <<>>
  /\ UNCHANGED <<themes, tasks, stories, currentThemeId, loading, nextId,
                 loads, deletes, lastAlert, chatVars, focusVars>>

\* supabase.auth: a user signs in on this client, or signs out.
SignIn(u) ==
  /\ authUser' = u
  /\ lastOp' = "signIn"
  /\ lastResult' = NoResult
  /\ UNCHANGED <<dbThemes, dbTasks, dbStories>>
  /\ AdapterFrame

SignOut ==
  /\ authUser # Null
  /\ authUser' = Null
  /\ lastOp' = "signOut"
  /\ lastResult' = NoResult
  /\ UNCHANGED <<dbThemes, dbTasks, dbStories>>
  /\ AdapterFrame

\* getTasks / getThemes / getStories
GetRows(fn, table) ==
  /\ lastOp' = fn
  /\ lastResult' =
       IF authUser = Null
         THEN [threw |-> NotAuthenticated, returned |-> {}, queries |-> 0]
         ELSE [threw |-> "", returned |-> {r \in table : r.user_id = authUser},
               queries |-> 1]
  /\ UNCHANGED <<authUser, dbThemes, dbTasks, dbStories>>
  /\ AdapterFrame

GetTasks == GetRows("getTasks", dbTasks)

GetThemes == GetRows("getThemes", dbThemes)

GetStories == GetRows("getStories", dbStories)

\* The outcome of a save call that does not look at the session.
SaveOutcome_SkipsSessionCheck(n, accepted) ==
  IF n = 0 THEN [threw |-> "", returned |-> "true", queries |-> 0]
  ELSE IF accepted THEN [threw |-> "", returned |-> "true", queries |-> 1]
  ELSE [threw |-> "error", returned |-> "", queries |-> 1]

\* The outcome of a save call: no session, an empty list, or one upsert that
\* the database accepts or refuses.
SaveOutcome(n, accepted) ==
  IF authUser = Null THEN [threw |-> "", returned |-> "false", queries |-> 0]
  ELSE IF n = 0 THEN [threw |-> "", returned |-> "true", queries |-> 0]
  ELSE IF accepted THEN [threw |-> "", returned |-> "true", queries |-> 1]
  ELSE [threw |-> "error", returned |-> "", queries |-> 1]

\* The table after saveTasks(list) under the session of uid.
SavedTasks(table, list, uid) ==
  LET rows == {TaskRow(list[i], uid) : i \in 1..Len(list)}
  IN IF uid # Null /\ Len(list) > 0 /\ Cardinality(rows) = Len(list)
        /\ PolicyAllowsUpsert(table, rows, uid) /\ TaskKeysHold(rows)
       THEN Upsert(table, rows) ELSE table

SavedThemes(table, list, uid) ==
  LET rows == {ThemeRow(list[i], uid) : i \in 1..Len(list)}
  IN IF uid # Null /\ Len(list) > 0 /\ Cardinality(rows) = Len(list)
        /\ PolicyAllowsUpsert(table, rows, uid)
       THEN Upsert(table, rows) ELSE table

SavedStories(table, list, uid) ==
  LET rows == {StoryRow(list[i], uid) : i \in 1..Len(list)}
  IN IF uid # Null /\ Len(list) > 0 /\ Cardinality(rows) = Len(list)
        /\ PolicyAllowsUpsert(table, rows, uid) /\ StoryKeysHold(rows)
       THEN Upsert(table, rows) ELSE table

\* saveTasks(email, list)
AdapterSaveTasks(list) ==
  /\ dbTasks' = SavedTasks(dbTasks, list, authUser)
  /\ lastOp' = "saveTasks"
  /\ lastResult' = SaveOutcome(Len(list),
        LET rows == {TaskRow(list[i], authUser) : i \in 1..Len(list)}
        IN Cardinality(rows) = Len(list) /\ PolicyAllowsUpsert(dbTasks, rows, authUser)
             /\ TaskKeysHold(rows))
  /\ UNCHANGED <<authUser, dbThemes, dbStories>>
  /\ AdapterFrame

\* saveThemes(email, list)
AdapterSaveThemes(list) ==
  /\ dbThemes' = SavedThemes(dbThemes, list, authUser)
  /\ lastOp' = "saveThemes"
  /\ lastResult' = SaveOutcome(Len(list),
        LET rows == {ThemeRow(list[i], authUser) : i \in 1..Len(list)}
        IN Cardinality(rows) = Len(list) /\ PolicyAllowsUpsert(dbThemes, rows, authUser))
  /\ UNCHANGED <<authUser, dbTasks, dbStories>>
  /\ AdapterFrame

\* saveStories(email, list)
AdapterSaveStories(list) ==
  /\ dbStories' = SavedStories(dbStories, list, authUser)
  /\ lastOp' = "saveStories"
  /\ lastResult' = SaveOutcome(Len(list),
        LET rows == {StoryRow(list[i], authUser) : i \in 1..Len(list)}
        IN Cardinality(rows) = Len(list) /\ PolicyAllowsUpsert(dbStories, rows, authUser)
             /\ StoryKeysHold(rows))
  /\ UNCHANGED <<authUser, dbThemes, dbTasks>>
  /\ AdapterFrame

\* deleteTask(taskId): delete().eq('id', taskId); the delete policy leaves
\* the rows of other users out of the statement.
AdapterDeleteTask(id) ==
  /\ dbTasks' = {r \in dbTasks : ~(r.id = id /\ r.user_id = authUser)}
  /\ lastOp' = "deleteTask"
  /\ lastResult' = [threw |-> "", returned |-> "", queries |-> 1]
  /\ UNCHANGED <<authUser, dbThemes, dbStories>>
  /\ AdapterFrame

\* deleteTheme(themeId); the foreign-key actions then run on every row that
\* references the theme.
AdapterDeleteTheme(id) ==
  /\ IF \E r \in dbThemes : r.id = id /\ r.user_id = authUser
       THEN DbDeleteTheme(id)
       ELSE UNCHANGED <<dbThemes, dbTasks, dbStories>>
  /\ lastOp' = "deleteTheme"
  /\ lastResult' = [threw |-> "", returned |-> "", queries |-> 1]
  /\ UNCHANGED authUser
  /\ AdapterFrame

\* deleteStory(storyId); tasks.story_id is set to NULL.
AdapterDeleteStory(id) ==
  /\ IF \E r \in dbStories : r.id = id /\ r.user_id = authUser
       THEN /\ dbStories' = {r \in dbStories : r.id # id}
            /\ dbTasks' = {IF r.storyId = id THEN [r EXCEPT !.storyId = Null] ELSE r : r \in dbTasks}
            /\ UNCHANGED dbThemes
       ELSE UNCHANGED <<dbThemes, dbTasks, dbStories>>
  /\ lastOp' = "deleteStory"
  /\ lastResult' = [threw |-> "", returned |-> "", queries |-> 1]
  /\ UNCHANGED authUser
  /\ AdapterFrame

\* The records the callers hand to the adapter.
AdapterThemeIds == {"h1", "h2"}

AdapterTasks ==
  {[id |-> i, themeId |-> h, storyId |-> Undefined, title |-> "a", completed |-> FALSE] :
     i \in {"t1", "t2"}, h \in AdapterThemeIds}

AdapterThemes ==
  {[id |-> h, startDate |-> DefaultStart, endDate |-> DefaultEnd, completed |-> FALSE] :
     h \in AdapterThemeIds}

AdapterStories ==
  {[id |-> "s1", themeId |-> h, title |-> "Fit", createdAt |-> 1] : h \in {"h1", Undefined}}

ListsOf(S) == UNION {[1..n -> S] : n \in 0..MaxSave}

AdapterNext ==
  \/ \E u \in Users : SignIn(u)
  \/ SignOut
  \/ GetTasks
  \/ GetThemes
  \/ GetStories
  \/ \E list \in ListsOf(AdapterTasks) : AdapterSaveTasks(list)
  \/ \E list \in ListsOf(AdapterThemes) : AdapterSaveThemes(list)
  \/ \E list \in ListsOf(AdapterStories) : AdapterSaveStories(list)
  \/ \E i \in {"t1", "t2"} : AdapterDeleteTask(i)
  \/ \E h \in AdapterThemeIds : AdapterDeleteTheme(h)
  \/ AdapterDeleteStory("s1")

AdapterSpec == Init /\ [][AdapterNext]_vars

\* --------------------------------------------------------------------
UniqueIds(table) == \A r1, r2 \in table : r1.id = r2.id => r1 = r2

StoredAs(row, table) == row \in table /\ \A r \in table : r.id = row.id => r = row

\* C16: when two devices upsert the same task id, the stored row holds for
\* every field the value of the upsert the database applied last (the two
\* edits are not merged), and a later focus/visibility refetch replaces the
\* device's local copy with the stored rows it selected.
C16_LastUpsertWinsRefetchReplaces ==
  [][/\ lastOp' = "otherDevice:saveTasks" => StoredAs(ToDbTask(lastArgs'[1]), dbTasks')
     /\ lastOp' = "toggleTask" =>
          \E i \in 1..Len(tasks) :
            /\ tasks'[i] # tasks[i]
            /\ StoredAs(ToDbTask(tasks'[i]), dbTasks')
     /\ lastOp' = "loadData(true)" =>
          \A l \in loads' \ loads : Range(l.loadedTasks) = dbTasks
     /\ lastOp' = "loadData(true):resumed" =>
          \E l \in loads \ loads' : tasks' = l.loadedTasks]_vars

\* The other device stored the title z (a refetch in flight selected it), then
\* this device toggled its older copy: the stored row has this device's title.
C16_Witness ==
  /\ lastOp = "toggleTask"
  /\ \E l \in loads : \E i \in 1..Len(l.loadedTasks) : \E r \in dbTasks :
       /\ l.loadedTasks[i].title = "z"
       /\ r.id = l.loadedTasks[i].id
       /\ r.title = "a"

\* ====================================================================
\* callGeminiProxy: one call of the Edge Function helper, step by step.

\* Number of different prompts sent in ProxySpec.
MaxPrompts == 4

primaryModel == "gemini-3-flash-preview"

fallbackModel == "gemini-2.0-flash"

\* params.model as the callers pass it: absent, the primary model, the
\* fallback model, or another model.
ParamModels == {Undefined, primaryModel, fallbackModel, "gemini-pro"}

\* What supabase.functions.invoke resolves to: data, or an error with or
\* without a message.
InvokeOutcomes ==
  {[ok |-> TRUE, data |-> "text", message |-> ""],
   [ok |-> FALSE, data |-> "", message |-> "boom"],
   [ok |-> FALSE, data |-> "", message |-> ""]}

\* error.message || fallback text
OrElse(message, text) == IF Truthy(message) THEN message ELSE text

\* callGeminiProxy(params) up to its first await: modelToUse is chosen and
\* the proxy is invoked with it.
CallGeminiProxy(model, prompt) ==
  /\ lastOp' = "callGeminiProxy"
  /\ lastResult' =
       [threw |-> "", returned |-> "", queries |-> 1, pending |-> TRUE,
        prompt |-> prompt, model |-> model,
        modelToUse |-> IF Truthy(model) THEN model ELSE primaryModel,
        invoked |-> <<IF Truthy(model) THEN model ELSE primaryModel>>,
        failed |-> <<>>, errors |-> <<>>]
  /\ UNCHANGED <<authUser, dbThemes, dbTasks, dbStories>>
  /\ AdapterFrame

\* The continuation with a catch branch that retries whatever the model was.
InvokeAnswered_AlwaysRetries(outcome) ==
  /\ lastOp \in {"callGeminiProxy", "gemini-proxy:answered"}
  /\ lastResult.pending
  /\ lastOp' = "gemini-proxy:answered"
  /\ lastResult' =
       IF outcome.ok
         THEN [lastResult EXCEPT !.pending = FALSE, !.returned = outcome.data]
       ELSE IF Len(lastResult.invoked) = 1
         THEN [lastResult EXCEPT !.invoked = Append(@, fallbackModel),
                                 !.failed = Append(@, lastResult.invoked[1]),
                                        !.errors = Append(@, outcome.message),
                                 !.queries = @ + 1]
       ELSE [lastResult EXCEPT !.pending = FALSE,
                               !.failed = Append(@, fallbackModel),
                               !.errors = Append(@, outcome.message),
                               !.threw = OrElse(outcome.message,
                                   "Failed to contact AI service (Fallback)")]
  /\ UNCHANGED <<authUser, dbThemes, dbTasks, dbStories>>
  /\ AdapterFrame

\* The invocation in flight is answered and callGeminiProxy continues: it
\* returns the data, or (first invocation, catch branch) throws unless the
\* primary model was used and then invokes the proxy with the fallback
\* model, or (second invocation) throws.
InvokeAnswered(outcome) ==
  /\ lastOp \in {"callGeminiProxy", "gemini-proxy:answered"}
  /\ lastResult.pending
  /\ lastOp' = "gemini-proxy:answered"
  /\ lastResult' =
       IF outcome.ok
         THEN [lastResult EXCEPT !.pending = FALSE, !.returned = outcome.data]
       ELSE IF Len(lastResult.invoked) = 1
         THEN IF lastResult.modelToUse # primaryModel
                THEN [lastResult EXCEPT !.pending = FALSE,
                                        !.failed = Append(@, lastResult.invoked[1]),
                                        !.errors = Append(@, outcome.message),
                                        !.threw = OrElse(outcome.message,
                                            "Failed to contact AI service")]
                ELSE [lastResult EXCEPT !.invoked = Append(@, fallbackModel),
                                        !.failed = Append(@, lastResult.invoked[1]),
                                        !.errors = Append(@, outcome.message),
                                        !.queries = @ + 1]
       ELSE [lastResult EXCEPT !.pending = FALSE,
                               !.failed = Append(@, fallbackModel),
                               !.errors = Append(@, outcome.message),
                               !.threw = OrElse(outcome.message,
                                   "Failed to contact AI service (Fallback)")]
  /\ UNCHANGED <<authUser, dbThemes, dbTasks, dbStories>>
  /\ AdapterFrame

ProxyNext ==
  \/ \E model \in ParamModels, prompt \in 1..MaxPrompts : CallGeminiProxy(model, prompt)
  \/ \E outcome \in InvokeOutcomes : InvokeAnswered(outcome)

ProxySpec == Init /\ [][ProxyNext]_vars

\* --------------------------------------------------------------------
ProxyCalled == lastOp \in {"callGeminiProxy", "gemini-proxy:answered"}

\* C17: callGeminiProxy invokes the proxy at most twice per call; a second
\* invocation happens only when the first one failed while using the primary
\* preview model, and it uses the stable fallback model; if the second also
\* fails the error is thrown to the caller and nothing more is invoked.
C17_AtMostOneFallbackRetry ==
  ProxyCalled =>
    /\ Len(lastResult.invoked) <= 2
    /\ lastResult.queries = Len(lastResult.invoked)
    /\ Len(lastResult.invoked) = 2 =>
         /\ lastResult.invoked[1] = primaryModel
         /\ lastResult.failed # <<>> /\ lastResult.failed[1] = primaryModel
         /\ lastResult.invoked[2] = fallbackModel
    /\ Len(lastResult.failed) = 2 =>
         /\ ~lastResult.pending
         /\ lastResult.threw # ""
         /\ lastResult.returned = ""

\* Both invocations failed and the fallback error reached the caller.
C17_Witness ==
  /\ ProxyCalled
  /\ lastResult.invoked = <<primaryModel, fallbackModel>>
  /\ lastResult.failed = <<primaryModel, fallbackModel>>
  /\ lastResult.threw = "Failed to contact AI service (Fallback)"

\* --------------------------------------------------------------------
AdapterGets == {"getTasks", "getThemes", "getStories"}

AdapterSaves == {"saveTasks", "saveThemes", "saveStories"}

AdapterDeletes == {"deleteTask", "deleteTheme", "deleteStory"}

\* The rows of table that the user uid does not own.
RowsOfOthers(table, uid) == {r \in table : r.user_id # uid}

\* C18: for two distinct users A and B and any sequence of get, save and
\* delete adapter calls made under A's session, no row owned by B is
\* returned, modified or deleted.
C18_OtherUsersRowsUntouched ==
  [][authUser # Null /\ lastOp' \in AdapterGets \cup AdapterSaves \cup AdapterDeletes =>
       /\ RowsOfOthers(dbTasks', authUser) = RowsOfOthers(dbTasks, authUser)
       /\ RowsOfOthers(dbThemes', authUser) = RowsOfOthers(dbThemes, authUser)
       /\ RowsOfOthers(dbStories', authUser) = RowsOfOthers(dbStories, authUser)
       /\ lastOp' \in AdapterGets =>
            \A r \in lastResult'.returned : r.user_id = authUser]_vars

\* --------------------------------------------------------------------
\* C19: with no authenticated session data access is blocked: getTasks,
\* getThemes and getStories throw 'User not authenticated' without querying,
\* and saveTasks, saveThemes and saveStories return false without issuing
\* any upsert.
C19_NoSessionNoAccess ==
  [][authUser = Null =>
       /\ lastOp' \in AdapterGets =>
            /\ lastResult'.threw = "User not authenticated"
            /\ lastResult'.returned = {}
            /\ lastResult'.queries = 0
       /\ lastOp' \in AdapterSaves =>
            /\ lastResult'.returned = "false"
            /\ lastResult'.threw = ""
            /\ lastResult'.queries = 0
            /\ UNCHANGED <<dbTasks, dbThemes, dbStories>>]_vars

\* Signed out with rows stored, a save was answered false.
C19_Witness ==
  /\ authUser = Null
  /\ lastOp = "saveTasks"
  /\ lastResult.returned = "false"
  /\ dbTasks # {}

\* ====================================================================
\* CalendarButton: the event dates of a task and the two exports.

MsPerSecond == 1000
MsPerMinute == 60000
MsPerHour == 3600000
MsPerDay == 86400000

\* task.dueDate, a string in one of the forms the application produces:
\*   date    YYYY-MM-DD                     (the Copilot's dates)
\*   local   YYYY-MM-DDTHH:MM               (the task form, '...T23:59')
\*   utc     YYYY-MM-DDTHH:MM:SSZ
\*   utcMs   YYYY-MM-DDTHH:MM:SS.mmmZ       (new Date().toISOString())
\*   offset  YYYY-MM-DDTHH:MM:SS+00:00      (due_date read back)
DueDate(form, day, hour, minute, ms) ==
  [form |-> form, day |-> day, hour |-> hour, minute |-> minute, second |-> 0, ms |-> ms]

DueDates ==
  {DueDate("date", d, 0, 0, 0) : d \in Days}
    \cup {DueDate(f, d, h, m, 0) :
            f \in {"local", "utc", "offset"}, d \in Days, h \in {0, 9, 23}, m \in {0, 59}}
    \cup {DueDate("utcMs", d, h, m, ms) :
            d \in Days, h \in {0, 9, 23}, m \in {0, 59}, ms \in {0, 500}}

\* The browser's time zone, in minutes east of UTC.
TimeZones == {-300, 0, 120}

\* The instant (ms since the epoch day 0) of calendar fields taken as UTC.
InstantOf(f) ==
  f.day * MsPerDay + f.hour * MsPerHour + f.minute * MsPerMinute
    + f.second * MsPerSecond + f.ms

\* new Date(str): a date-only string is UTC, a date-time without offset is
\* local time, the others name their offset.
NewDate(str, tz) ==
  IF str.form = "local" THEN InstantOf(str) - tz * MsPerMinute ELSE InstantOf(str)

\* task.dueDate.includes('T')
IncludesT(str) == str.form # "date"

\* task.dueDate.endsWith('T00:00:00.000Z') / endsWith('T00:00:00Z')
EndsWithMidnightZ(str) ==
  /\ str.form \in {"utc", "utcMs"}
  /\ str.hour = 0 /\ str.minute = 0 /\ str.second = 0 /\ str.ms = 0

HasTime(str) == IncludesT(str) /\ ~EndsWithMidnightZ(str)

\* date.setHours(h, 0, 0, 0): the hour of the local calendar day of date.
SetHours(date, tz, h) ==
  LET localDay == (date + tz * MsPerMinute) \div MsPerDay
  IN localDay * MsPerDay + h * MsPerHour - tz * MsPerMinute

\* getEventDates with the 9 AM default applied to every task.
GetEventDates_AlwaysNineAM(task, tz) ==
  LET startDate == SetHours(NewDate(task.dueDate, tz), tz, 9)
  IN [startDate |-> startDate,
      endDate |-> startDate + task.estimatedMinutes * MsPerMinute]

\* getEventDates
GetEventDates(task, tz) ==
  LET parsed == NewDate(task.dueDate, tz)
      startDate == IF ~HasTime(task.dueDate) THEN SetHours(parsed, tz, 9) ELSE parsed
  IN [startDate |-> startDate,
      endDate |-> startDate + task.estimatedMinutes * MsPerMinute]

\* date.toISOString(): the UTC calendar fields of the instant.
ToISOString(date) ==
  [day |-> date \div MsPerDay,
   hour |-> (date % MsPerDay) \div MsPerHour,
   minute |-> (date % MsPerHour) \div MsPerMinute,
   second |-> (date % MsPerMinute) \div MsPerSecond,
   ms |-> date % MsPerSecond]

\* formatDate: toISOString().replace(/-|:|\.\d\d\d/g, "") is
\* YYYYMMDDTHHMMSSZ, the fields without the milliseconds.
FormatDate(date) ==
  LET iso == ToISOString(date)
  IN [day |-> iso.day, hour |-> iso.hour, minute |-> iso.minute, second |-> iso.second]

\* The UTC instant a YYYYMMDDTHHMMSSZ value denotes.
InstantOfStamp(stamp) ==
  stamp.day * MsPerDay + stamp.hour * MsPerHour + stamp.minute * MsPerMinute
    + stamp.second * MsPerSecond

CalendarTasks ==
  {[id |-> "t1", dueDate |-> d, estimatedMinutes |-> e] : d \in DueDates, e \in {30, 90}}

\* handleGoogleCalendar: the dates parameter of the URL that is opened.
HandleGoogleCalendar(task, tz) ==
  /\ lastOp' = "handleGoogleCalendar"
  /\ LET dates == GetEventDates(task, tz)
     IN lastResult' =
          [threw |-> "", queries |-> 0, dueDate |-> task.dueDate, tz |-> tz,
           estimatedMinutes |-> task.estimatedMinutes,
           returned |-> [start |-> FormatDate(dates.startDate),
                         end |-> FormatDate(dates.endDate)]]
  /\ UNCHANGED <<authUser, dbThemes, dbTasks, dbStories>>
  /\ AdapterFrame

\* handleDownloadICS with DTEND counted from the due date itself.
HandleDownloadICS_EndFromDueDate(task, tz) ==
  /\ lastOp' = "handleDownloadICS"
  /\ LET dates == GetEventDates(task, tz)
     IN lastResult' =
          [threw |-> "", queries |-> 0, dueDate |-> task.dueDate, tz |-> tz,
           estimatedMinutes |-> task.estimatedMinutes,
           returned |-> [start |-> FormatDate(dates.startDate),
                         end |-> FormatDate(NewDate(task.dueDate, tz)
                                   + task.estimatedMinutes * MsPerMinute)]]
  /\ UNCHANGED <<authUser, dbThemes, dbTasks, dbStories>>
  /\ AdapterFrame

\* handleDownloadICS: DTSTART and DTEND of the file that is downloaded.
HandleDownloadICS(task, tz) ==
  /\ lastOp' = "handleDownloadICS"
  /\ LET dates == GetEventDates(task, tz)
     IN lastResult' =
          [threw |-> "", queries |-> 0, dueDate |-> task.dueDate, tz |-> tz,
           estimatedMinutes |-> task.estimatedMinutes,
           returned |-> [start |-> FormatDate(dates.startDate),
                         end |-> FormatDate(dates.endDate)]]
  /\ UNCHANGED <<authUser, dbThemes, dbTasks, dbStories>>
  /\ AdapterFrame

CalendarNext ==
  \/ \E task \in CalendarTasks, tz \in TimeZones : HandleGoogleCalendar(task, tz)
  \/ \E task \in CalendarTasks, tz \in TimeZones : HandleDownloadICS(task, tz)

CalendarSpec == Init /\ [][CalendarNext]_vars

\* --------------------------------------------------------------------
Exported == lastOp \in {"handleGoogleCalendar", "handleDownloadICS"}

\* C20 as stated: for every task the event start emitted by the calendar
\* export (Google Calendar dates parameter, ICS DTSTART) denotes the same UTC
\* instant as the task's dueDate, with zero seconds of difference.
C20_StartIsDueDateInstant ==
  Exported =>
    InstantOfStamp(lastResult.returned.start) = NewDate(lastResult.dueDate, lastResult.tz)

\* C20 amended: for every task whose dueDate carries a time of day (it
\* contains 'T' and does not end in T00:00:00.000Z or T00:00:00Z), the event
\* start emitted by the export denotes the UTC instant of the dueDate cut to
\* the whole second.
C20_StartIsDueDateSecondWhenTimed ==
  Exported /\ HasTime(lastResult.dueDate) =>
    InstantOfStamp(lastResult.returned.start)
      = (NewDate(lastResult.dueDate, lastResult.tz) \div MsPerSecond) * MsPerSecond

\* A task due at 23:59 local time in a zone west of UTC was exported: the
\* start is on the next UTC day.
C20_Witness ==
  /\ Exported
  /\ lastResult.dueDate.form = "local" /\ lastResult.dueDate.hour = 23
  /\ lastResult.tz < 0
  /\ lastResult.returned.start.day = lastResult.dueDate.day + 1

\* --------------------------------------------------------------------
\* The local wall-clock instant of a stamp in the zone tz.
LocalInstant(stamp, tz) == InstantOfStamp(stamp) + tz * MsPerMinute

RefetchIds == 3

RefetchNext ==
  \/ \E l \in loads : LoadDataResume(l, DefaultStart)
  \/ loads = {} /\ LoadDataBackground
  \/ \E range \in DateRanges : nextId <= RefetchIds /\ HandleThemeSubmit(range)
  \/ \E id \in IdsOf(themes) : SelectTheme(id)

RefetchSpec == Init /\ [][RefetchNext]_vars

\* --------------------------------------------------------------------
\* C22: a background refetch triggered by window focus or visibility change
\* never changes currentThemeId when a theme is already selected; a theme
\* the user chose stays current across refetches.
C22_RefetchKeepsSelectedTheme ==
  [][(/\ lastOp' = "loadData(true):resumed"
      /\ currentThemeId \in IdsOf(themes)
      /\ currentThemeId \in IdsOf(themes'))
       => currentThemeId' = currentThemeId]_vars

\* ====================================================================
\* Eras deleted while earlier deletions still await the database.

\* Bounds on the ids generated in one run of RaceSpec and on the
\* handleDeleteTheme calls in flight.
RaceIds == 2
MaxDeletes == 2

RaceNext ==
  \/ \E l \in loads : LoadDataResume(l, DefaultStart)
  \/ nextId <= RaceIds /\ HandleThemeSubmit(<<DefaultStart, DefaultEnd>>)
  \/ \E id \in IdsOf(themes) : SelectTheme(id)
  \/ \E id \in IdsOf(themes) : HandleDeleteThemePending(id, MaxDeletes)
  \/ \E d \in deletes : RemoteDeleteTheme(d, TRUE)
  \/ \E d \in deletes : HandleDeleteThemeResume(d)

RaceSpec == Init /\ [][RaceNext]_vars

\* --------------------------------------------------------------------
\* C23: after initial load the local theme list is never empty, under any
\* interleaving of theme deletions, also when a second handleDeleteTheme
\* call starts while the first still awaits its remote delete.
C23_ThemesNeverEmpty == ~loading => Len(themes) > 0

\* ============================================================ Focus mode
\* Task.remainingMinutes is optional: a task or a row holds the field only
\* once a number was written to it.
MaxRequests == 2
FocusIds == 3
FocusTasks == 2
FocusMinutes == {5, 15}

HasRemaining(t) == "remainingMinutes" \in DOMAIN t

\* { ...t, remainingMinutes: minutes }
WithRemaining(t, minutes) == ("remainingMinutes" :> minutes) @@ t

\* updateTaskRemainingTime as the database executes it:
\* update tasks set remaining_minutes = minutes where id = taskId
DbUpdateRemaining(table, taskId, minutes) ==
  {IF r.id = taskId THEN WithRemaining(r, minutes) ELSE r : r \in table}

\* The upsert of saveTasks as the database executes it, for one row: the
\* columns of the JSON body replace the stored ones.  remaining_minutes:
\* undefined is left out of the body, and that column keeps its value.
DbUpsertTask(table, row) ==
  LET old == {r \in table : r.id = row.id}
  IN (table \ old) \cup {IF old = {} THEN row ELSE row @@ (CHOOSE r \in old : TRUE)}

\* onFocus={setFocusTask}: the Focus button, shown on tasks not completed.
StartFocus(id) ==
  /\ UIReady
  /\ focusTask = <<>>
  /\ \E i \in 1..Len(tasks) :
       /\ tasks[i].id = id
       /\ ~tasks[i].completed
       /\ focusTask' = <<tasks[i]>>
  /\ lastOp' = "setFocusTask"
  /\ lastArgs' = <<id>>
  /\ UNCHANGED <<themes, tasks, stories, currentThemeId, loading, nextId, dbThemes,
                 dbTasks, dbStories, loads, deletes, lastAlert>>
  /\ UNCHANGED <<chatVars, svcVars, requests>>

\* handleUpdateTaskRemainingTime(taskId, minutes), its statement executed
\* before the next step.
UpdateTaskRemainingTime(taskId, minutes) ==
  /\ tasks' = [i \in 1..Len(tasks) |->
                 IF tasks[i].id = taskId THEN WithRemaining(tasks[i], minutes) ELSE tasks[i]]
  /\ dbTasks' = DbUpdateRemaining(dbTasks, taskId, minutes)

\* onUpdateProgress of FocusMode
OnUpdateProgress(minutes) ==
  /\ focusTask # <<>>
  /\ UpdateTaskRemainingTime(focusTask[1].id, minutes)
  /\ lastOp' = "handleUpdateTaskRemainingTime"
  /\ lastArgs' = <<focusTask[1].id>>
  /\ UNCHANGED <<themes, stories, currentThemeId, loading, nextId, dbThemes,
                 dbStories, loads, deletes, lastAlert>>
  /\ UNCHANGED <<chatVars, svcVars, focusVars>>

\* onExit of FocusMode
OnExit(minutes) ==
  /\ focusTask # <<>>
  /\ UpdateTaskRemainingTime(focusTask[1].id, minutes)
  /\ focusTask' = <<>>
  /\ lastOp' = "onExit"
  /\ lastArgs' = <<focusTask[1].id>>
  /\ UNCHANGED <<themes, stories, currentThemeId, loading, nextId, dbThemes,
                 dbStories, loads, deletes, lastAlert>>
  /\ UNCHANGED <<chatVars, svcVars, requests>>

\* completeFocusTask up to its await: toggleTask(taskId) is called and not
\* awaited, so its upsert and the remaining-time update are both in flight.
CompleteFocusTask ==
  /\ focusTask # <<>>
  /\ ~\E r \in requests : r.kind = "update"
  /\ LET taskId == focusTask[1].id
         IsIt(t) == t.id = taskId
         i == FindIndex(tasks, IsIt)
         update == [kind |-> "update", id |-> taskId, status |-> "sent",
                    row |-> [id |-> taskId, remainingMinutes |-> 0]]
     IN IF i # 0
          THEN LET updatedTask == [tasks[i] EXCEPT !.completed = ~tasks[i].completed]
               IN /\ tasks' = [j \in 1..Len(tasks) |->
                                 IF tasks[j].id = taskId THEN updatedTask ELSE tasks[j]]
                  /\ requests' = requests \cup
                       {[kind |-> "upsert", id |-> taskId, status |-> "sent",
                         row |-> ToDbTask(updatedTask)], update}
          ELSE /\ requests' = requests \cup {update}
               /\ UNCHANGED tasks
  /\ lastOp' = "completeFocusTask"
  /\ lastArgs' = <<focusTask[1].id>>
  /\ UNCHANGED <<themes, stories, currentThemeId, loading, nextId, dbThemes,
                 dbTasks, dbStories, loads, deletes, lastAlert>>
  /\ UNCHANGED <<chatVars, svcVars, focusTask>>

\* The database executes a statement that was sent.  Nothing runs after the
\* upsert of toggleTask; completeFocusTask waits for the update.
DbExecute(r) ==
  /\ r \in requests
  /\ r.status = "sent"
  /\ IF r.kind = "upsert"
       THEN /\ dbTasks' = DbUpsertTask(dbTasks, r.row)
            /\ requests' = requests \ {r}
            /\ lastOp' = "tasks:upsert"
       ELSE /\ dbTasks' = DbUpdateRemaining(dbTasks, r.id, r.row.remainingMinutes)
            /\ requests' = (requests \ {r}) \cup {[r EXCEPT !.status = "done"]}
            /\ lastOp' = "tasks:update"
  /\ lastArgs' = <<r.id>>
  /\ UNCHANGED <<themes, tasks, stories, currentThemeId, loading, nextId, dbThemes,
                 dbStories, loads, deletes, lastAlert>>
  /\ UNCHANGED <<chatVars, svcVars, focusTask>>

\* completeFocusTask after its await: setFocusTask(null)
CompleteFocusTaskResume(r) ==
  /\ r \in requests
  /\ r.kind = "update"
  /\ r.status = "done"
  /\ requests' = requests \ {r}
  /\ focusTask' = <<>>
  /\ lastOp' = "completeFocusTask:finished"
  /\ lastArgs' = <<r.id>>
  /\ UNCHANGED <<themes, tasks, stories, currentThemeId, loading, nextId, dbThemes,
                 dbTasks, dbStories, loads, deletes, lastAlert>>
  /\ UNCHANGED <<chatVars, svcVars>>

\* Focus sessions on the tasks of one page load.
FocusNext ==
  \/ \E l \in loads : LoadDataResume(l, DefaultStart)
  \/ /\ focusTask = <<>>
     /\ nextId <= FocusIds
     /\ Len(tasks) < FocusTasks
     /\ AddTask("a", TRUE)
  \/ \E id \in IdsOf(tasks) : StartFocus(id)
  \/ \E minutes \in FocusMinutes : OnUpdateProgress(minutes)
  \/ \E minutes \in FocusMinutes : OnExit(minutes)
  \/ Cardinality(requests) + 2 <= MaxRequests /\ CompleteFocusTask
  \/ \E r \in requests : DbExecute(r)
  \/ \E r \in requests : CompleteFocusTaskResume(r)

FocusSpec == Init /\ [][FocusNext]_vars

\* --------------------------------------------------------------------
\* C24: a task that was added or edited locally and whose save succeeded
\* (the table holds the row as the device holds it) is not missing or
\* reverted in local state afterwards unless the user deletes or edits it
\* again; in particular a background refetch completing after the optimistic
\* update keeps it.
C24_SavedTaskSurvivesRefetch ==
  [][lastOp' = "loadData(true):resumed" =>
       \A i \in 1..Len(tasks) :
         ToDbTask(tasks[i]) \in dbTasks =>
           \E j \in 1..Len(tasks') : ToDbTask(tasks'[j]) = ToDbTask(tasks[i])]_vars

\* --------------------------------------------------------------------
\* C25: when an AI reply is appended to a chat session, every session keeps
\* every message, with its applied and rejected markers, that it held just
\* before the append.
C25_AppendKeepsMessagesAndMarkers ==
  [][(lastOp' = "handleSendMessage:resumed" /\ lastArgs' # <<>>) =>
       /\ Len(sessions') = Len(sessions)
       /\ \A k \in 1..Len(sessions) :
            /\ Len(sessions'[k].messages) >= Len(sessions[k].messages)
            /\ \A j \in 1..Len(sessions[k].messages) :
                 sessions'[k].messages[j] = sessions[k].messages[j]]_vars

\* --------------------------------------------------------------------
\* C26: after handleSendMessage starts a request, isThinking eventually
\* returns to false, whatever the LLM call does (reply text, empty reply,
\* thrown error).
C26_ThinkingEnds == isThinking ~> ~isThinking

\* The call threw and the chat left the thinking state.
C26_Witness == lastOp = "handleSendMessage:threw" /\ ~isThinking /\ sends = {}

\* --------------------------------------------------------------------
\* C27: once the Copilot has loaded its sessions, across new-chat,
\* select-session, delete-session and send actions the session list is not
\* empty and currentSessionId is the id of a session of the list.
C27_CurrentSessionInList ==
  currentSessionId # Null =>
    /\ Len(sessions) > 0
    /\ currentSessionId \in IdsOf(sessions)

\* The only session was deleted and a fresh one took its place.
C27_Witness ==
  /\ lastOp = "handleDeleteSession"
  /\ Len(sessions) = 1
  /\ lastArgs[1] \notin IdsOf(sessions)
  /\ currentSessionId = sessions[1].id

\* --------------------------------------------------------------------
\* C28: every task in local state whose storyId is set references a story
\* of the local story list, in particular after an era is deleted and its
\* stories are removed while tasks of other eras pointed to them.
C28_TaskStoryInStories ==
  \A i \in 1..Len(tasks) :
    Truthy(tasks[i].storyId) => tasks[i].storyId \in IdsOf(stories)

\* --------------------------------------------------------------------
\* C29: no new task is added to an era that is marked completed, by the
\* add-task modal or by applying Copilot suggestions.
C29_NoTaskAddedToCompletedEra ==
  [][lastOp' \in {"handleManualTaskSubmit", "handleCopilotAddTasks"} =>
       \A i \in 1..Len(tasks') :
         tasks'[i].id \notin IdsOf(tasks) =>
           \A k \in 1..Len(themes) :
             themes[k].id = tasks'[i].themeId => ~themes[k].completed]_vars

\* --------------------------------------------------------------------
\* C30: once completeFocusTask has finished and its statements have been
\* executed, in whichever order, the task's row is completed and its
\* remaining minutes are 0.
C30_CompletedWithNoTimeLeft ==
  (requests = {} /\ lastOp \in {"completeFocusTask:finished", "tasks:upsert"}) =>
    \A r \in dbTasks :
      r.id = lastArgs[1] => r.completed /\ HasRemaining(r) /\ r.remainingMinutes = 0

====
